---- MODULE Spec2Model ----
(***************************************************************************)
(* Price-alert evaluation and anti-spam notification engine of BotCrypto:  *)
(* the price cache and fetch_prices (jobs.py), the subscription and        *)
(* notification store (db.py) and the check_prices polling cycle (jobs.py).*)
(* Prices and thresholds are integers (whole dollars); time is in seconds. *)
(***************************************************************************)
EXTENDS Integers, Sequences, FiniteSets, TLC

(***************************************************************************)
(* Bounds of the model.                                                    *)
(***************************************************************************)
\* Number of clock advances in a behaviour of SpecFetch.
MaxTicks == 2
\* Number of fetch_prices calls completed in a behaviour of SpecFetch.
MaxCalls == 3

(***************************************************************************)
(* Program constants.                                                      *)
(***************************************************************************)
\* jobs.py: CACHE_DURATION = 240
CACHE_DURATION == 240

\* Python's None, as returned by get_cached_data on a miss and as the value
\* of a JSON null "usd" field.
None == -1
\* A response entry data[asset] that is not a JSON object: testing
\* '"usd" in data[asset]' or indexing it raises TypeError.
BadEntry == -2

Assets == {"bitcoin", "ethereum"}
Callers == {"command", "cycle"}

VARIABLES
    now,            \* the wall clock, datetime.now(), in seconds
    nticks,         \* how often the clock advanced (bounds the behaviour)
    price_cache,    \* jobs._price_cache: asset -> [data, timestamp], a dict
    fetch,          \* per caller, the fetch_prices call in progress
    lastFetch,      \* history: the fetch_prices call that has just returned
    ncalls,         \* history: number of fetch_prices calls returned
    users,          \* db table users: chat_id -> [type, expires, alerts]
    subscriptions,  \* db table subscriptions, the rows in rowid order
    notifications,  \* db table notifications, the rows in rowid order
    lastOp,         \* history: the store operation that has just returned
    cycle,          \* check_prices: its position and locals
    last_cleanup,   \* jobs._last_cleanup
    evalLog,        \* history: what the loop of the running cycle did per row
    outbox,         \* history: the alerts bot.send_message delivered
    ncycles,        \* history: number of cycles started
    history,        \* history: the cycles that ended (SpecE2E only)
    lock,           \* db._lock: the thread that holds it, or "free"
    txn,            \* per thread, the write transaction of db.py in progress
    admin_chat_id   \* jobs.ADMIN_CHAT_ID: os.getenv("ADMIN_CHAT_ID"), or None

clockVars == <<now, nticks>>
cacheVars == <<price_cache, fetch, lastFetch, ncalls>>
lockVars == <<lock, txn>>
envVars == <<admin_chat_id>>
storeVars == <<users, subscriptions, notifications, lastOp, lock, txn>>
cycleVars == <<cycle, last_cleanup, evalLog, outbox, ncycles, history>>

vars == <<now, nticks, price_cache, fetch, lastFetch, ncalls,
          users, subscriptions, notifications, lastOp,
          cycle, last_cleanup, evalLog, outbox, ncycles, history,
          lock, txn, admin_chat_id>>

(***************************************************************************)
(* Helpers.                                                                *)
(***************************************************************************)
Range(s) == {s[i] : i \in 1..Len(s)}

\* {**f, **g}: the dict union, g's values winning.
Merge(f, g) ==
    [k \in (DOMAIN f) \cup (DOMAIN g) |-> IF k \in DOMAIN g THEN g[k] ELSE f[k]]

EmptyMap == [k \in {} |-> 0]

\* cache_dict[key] = (data, datetime.now())
Put(cache_dict, key, data, t) ==
    [k \in (DOMAIN cache_dict) \cup {key} |->
        IF k = key THEN [data |-> data, timestamp |-> t] ELSE cache_dict[k]]

(***************************************************************************)
(* jobs.py: the price cache.                                               *)
(***************************************************************************)
\* get_cached_data with the comparison '<=': an entry of exactly max_age
\* seconds is still served.
get_cached_data_le(cache_dict, key, t) ==
    IF key \in DOMAIN cache_dict /\ t - cache_dict[key].timestamp <= CACHE_DURATION
    THEN cache_dict[key].data
    ELSE None

\* get_cached_data that never expires an entry.
get_cached_data_noexpiry(cache_dict, key, t) ==
    IF key \in DOMAIN cache_dict THEN cache_dict[key].data ELSE None

\* get_cached_data(cache_dict, key) at clock value t.
get_cached_data(cache_dict, key, t) ==
    IF key \in DOMAIN cache_dict /\ t - cache_dict[key].timestamp < CACHE_DURATION
    THEN cache_dict[key].data
    ELSE None

\* set_cached_data that keeps an entry that already exists.
set_cached_data_keep(cache_dict, key, data, t) ==
    IF key \in DOMAIN cache_dict THEN cache_dict ELSE Put(cache_dict, key, data, t)

\* set_cached_data(cache_dict, key, data) at clock value t.
set_cached_data(cache_dict, key, data, t) ==
    Put(cache_dict, key, data, t)

(***************************************************************************)
(* jobs.py: fetch_prices.                                                  *)
(***************************************************************************)
\* cached_prices holding every cache entry of the requested assets, whatever
\* its age.
CachedPricesAny(assets, cache_dict, t) ==
    [a \in {x \in Range(assets) : x \in DOMAIN cache_dict} |-> cache_dict[a].data]

\* The first loop of fetch_prices: cached_prices.
CachedPrices(assets, cache_dict, t) ==
    [a \in {x \in Range(assets) : get_cached_data(cache_dict, x, t) # None} |->
        get_cached_data(cache_dict, a, t)]

\* UncachedAssets that asks for every asset again.
UncachedAssetsAll(assets, cache_dict, t) ==
    assets

\* The first loop of fetch_prices: uncached_assets, in the order of assets.
UncachedAssets(assets, cache_dict, t) ==
    SelectSeq(assets, LAMBDA a : get_cached_data(cache_dict, a, t) = None)

\* The loop over uncached_assets that processes the response 'data' from
\* position i on: the cache and fetched_prices it leaves, and whether it
\* raised.  A null "usd" is stored and cached before the log line's format
\* raises TypeError.
RECURSIVE ProcessResponse(_, _, _, _, _, _)
ProcessResponse(uncached, data, i, cache_dict, fetched, t) ==
    IF i > Len(uncached)
    THEN [cache |-> cache_dict, fetched |-> fetched, raised |-> FALSE]
    ELSE LET a == uncached[i] IN
         IF a \notin DOMAIN data
         THEN ProcessResponse(uncached, data, i + 1, cache_dict, fetched, t)
         ELSE IF data[a] = BadEntry
         THEN [cache |-> cache_dict, fetched |-> fetched, raised |-> TRUE]
         ELSE LET c2 == set_cached_data(cache_dict, a, data[a], t)
                  f2 == Merge(fetched, [k \in {a} |-> data[a]])
              IN IF data[a] = None
                 THEN [cache |-> c2, fetched |-> f2, raised |-> TRUE]
                 ELSE ProcessResponse(uncached, data, i + 1, c2, f2, t)

\* The RequestException branch serving every cache entry of the requested
\* assets, the expired ones too.
ReturnOnRequestErrorStale(assets, cached, cache_dict) ==
    [a \in Range(assets) \cap DOMAIN cache_dict |-> cache_dict[a].data]

\* The except requests.exceptions.RequestException branch: cached_prices.
ReturnOnRequestError(assets, cached, cache_dict) == cached

\* The except Exception branch: cached_prices, the prices fetched before
\* the error are dropped from the result.
ReturnOnError(cached, fetched) == cached

\* all_prices that lets the cached prices win over the fetched ones and
\* drops nothing.
AllPricesStale(cached, fetched) == cached

\* all_prices = {**cached_prices, **fetched_prices}
AllPrices(cached, fetched) == Merge(cached, fetched)

\* check_prices is not running.
Idle == [pc |-> "idle"]

\* The module globals of jobs.py after import, with no cycle running.  Each
\* specification says whether it keeps the history of ended cycles.
InitJobs ==
    /\ now = 0
    /\ nticks = 0
    /\ price_cache = EmptyMap
    /\ fetch = [c \in {"command", "cycle"} |-> [state |-> "idle"]]
    /\ lastFetch = [outcome |-> "none"]
    /\ ncalls = 0
    /\ cycle = Idle
    /\ last_cleanup = 0
    /\ evalLog = << >>
    /\ outbox = {}
    /\ ncycles = 0

\* The threads that write the store: the job queue and the dispatcher.
Threads == {"cycle", "command"}

\* db._lock = Lock() after import: free, and no write transaction running.
InitLock ==
    /\ lock = "free"
    /\ txn = [th \in Threads |-> [pc |-> "idle"]]

\* The chat of the administrator, when the environment names one.
ADMIN_CHAT_ID == 1

\* ADMIN_CHAT_ID = os.getenv("ADMIN_CHAT_ID"), set in the environment.
InitEnv == admin_chat_id = ADMIN_CHAT_ID

NoCall == [state |-> "idle"]
NoOp == [op |-> "none"]
NoFetch == [outcome |-> "none"]

\* fetch_prices(assets) up to the return at line 62 or the request at line 76.
\* An empty list returns {} before the cache is read.
FetchBegin(c, assets) ==
    /\ fetch[c].state = "idle"
    /\ LET cached == CachedPrices(assets, price_cache, now)
           uncached == UncachedAssets(assets, price_cache, now)
       IN IF assets = << >> \/ uncached = << >>
          THEN /\ fetch' = fetch
               /\ lastFetch' = [outcome |-> "cached", caller |-> c,
                                assets |-> assets, calledAt |-> now,
                                cacheAtCall |-> price_cache,
                                requested |-> FALSE, ids |-> << >>,
                                data |-> EmptyMap, cacheBefore |-> price_cache,
                                result |-> IF assets = << >> THEN EmptyMap ELSE cached]
               /\ ncalls' = ncalls + 1
          ELSE /\ fetch' = [fetch EXCEPT ![c] =
                                [state |-> "waiting", assets |-> assets,
                                 cached |-> cached, uncached |-> uncached,
                                 calledAt |-> now, cacheAtCall |-> price_cache]]
               /\ lastFetch' = NoFetch
               /\ UNCHANGED ncalls
    /\ UNCHANGED <<now, nticks, price_cache>>

\* The request of caller c succeeded with the JSON object 'data'; the rest of
\* the try block and the generic except branch.
FetchRespond(c, data) ==
    /\ fetch[c].state = "waiting"
    /\ LET f == fetch[c]
           p == ProcessResponse(f.uncached, data, 1, price_cache, EmptyMap, now)
       IN /\ price_cache' = p.cache
          /\ lastFetch' = [outcome |-> IF p.raised THEN "error" ELSE "ok",
                           caller |-> c, assets |-> f.assets,
                           calledAt |-> f.calledAt, cacheAtCall |-> f.cacheAtCall,
                           requested |-> TRUE, ids |-> f.uncached,
                           data |-> data, cacheBefore |-> price_cache,
                           result |-> IF p.raised
                                      THEN ReturnOnError(f.cached, p.fetched)
                                      ELSE AllPrices(f.cached, p.fetched)]
    /\ fetch' = [fetch EXCEPT ![c] = NoCall]
    /\ ncalls' = ncalls + 1
    /\ UNCHANGED <<now, nticks>>

\* The request of caller c raised requests.exceptions.RequestException
\* (timeout, raise_for_status on a non-2xx status, connection error).
FetchFail(c) ==
    /\ fetch[c].state = "waiting"
    /\ LET f == fetch[c]
       IN lastFetch' = [outcome |-> "fail", caller |-> c, assets |-> f.assets,
                        calledAt |-> f.calledAt, cacheAtCall |-> f.cacheAtCall,
                        requested |-> TRUE, ids |-> f.uncached,
                        data |-> EmptyMap, cacheBefore |-> price_cache,
                        result |-> ReturnOnRequestError(f.assets, f.cached,
                                                        price_cache)]
    /\ fetch' = [fetch EXCEPT ![c] = NoCall]
    /\ ncalls' = ncalls + 1
    /\ UNCHANGED <<now, nticks, price_cache>>

\* The clock advances by d seconds, at most 'most' times in a behaviour.
Tick(d, most) ==
    /\ nticks < most
    /\ now' = now + d
    /\ nticks' = nticks + 1
    /\ lastFetch' = NoFetch
    /\ lastOp' = NoOp
    /\ UNCHANGED <<price_cache, fetch, ncalls>>
    /\ evalLog' = << >>
    /\ outbox' = {}
    /\ UNCHANGED <<users, subscriptions, notifications, lock, txn>>
    /\ UNCHANGED <<cycle, last_cleanup, ncycles, history, admin_chat_id>>

(***************************************************************************)
(* SpecFetch: a command handler (bot.py price_command, list_alerts)        *)
(* calling fetch_prices while the clock advances.                          *)
(***************************************************************************)
FetchPrices == {50000, 50200}
FetchDeltas == {100, 140}

\* The lists of distinct assets a caller passes.
AssetLists ==
    {<< >>, <<"bitcoin">>, <<"ethereum">>,
     <<"bitcoin", "ethereum">>, <<"ethereum", "bitcoin">>}

\* The JSON objects the price source may answer a request for ids with.
Responses(ids, prices) ==
    UNION {[S -> prices \cup {None, BadEntry}] : S \in SUBSET Range(ids)}

InitFetch ==
    /\ InitJobs
    /\ InitLock
    /\ InitEnv
    /\ history = [on |-> FALSE, log |-> << >>]
    /\ users = EmptyMap
    /\ subscriptions = << >>
    /\ notifications = << >>
    /\ lastOp = NoOp

CommandFetch ==
    /\ ncalls < MaxCalls
    /\ \E assets \in AssetLists : FetchBegin("command", assets)
    /\ UNCHANGED <<envVars, storeVars, cycleVars>>

CommandRespond ==
    /\ fetch["command"].state = "waiting"
    /\ \E data \in Responses(fetch["command"].uncached, FetchPrices) :
            FetchRespond("command", data)
    /\ UNCHANGED <<envVars, storeVars, cycleVars>>

CommandFail == FetchFail("command") /\ UNCHANGED <<envVars, storeVars, cycleVars>>

ClockFetch == \E d \in FetchDeltas : Tick(d, MaxTicks)

NextFetch == CommandFetch \/ CommandRespond \/ CommandFail \/ ClockFetch

SpecFetch == InitFetch /\ [][NextFetch]_vars

(***************************************************************************)
(* Properties of the price cache and of fetch_prices (SpecFetch).          *)
(***************************************************************************)
\* The assets of the call that has just returned whose cache entry was
\* fresh when fetch_prices read the cache.
FreshAt(assets, cache_dict, t) ==
    {a \in Range(assets) : /\ a \in DOMAIN cache_dict
                           /\ t - cache_dict[a].timestamp < 240
                           /\ cache_dict[a].data # None}

LastFresh == FreshAt(lastFetch.assets, lastFetch.cacheAtCall, lastFetch.calledAt)

Returned == lastFetch.outcome # "none"

\* C6: the cache serves an asset exactly when it holds an entry for it that is
\* strictly younger than 240 s (an entry of age 240 s or more is absent), it
\* serves the stored price, and a put overwrites whatever entry existed with
\* the new price and the current time.
C6_CacheFreshness ==
    Returned /\ lastFetch.assets # << >> =>
        /\ \A a \in Range(lastFetch.assets) :
            /\ (a \notin Range(lastFetch.ids)) <=> (a \in LastFresh)
            /\ a \in LastFresh =>
                /\ a \in DOMAIN lastFetch.result
                /\ lastFetch.result[a] = lastFetch.cacheAtCall[a].data
        /\ \A a \in Range(lastFetch.ids) :
            (a \in DOMAIN lastFetch.data /\ lastFetch.data[a] \in FetchPrices
                /\ lastFetch.outcome = "ok")
            => /\ a \in DOMAIN price_cache
               /\ price_cache[a] = [data |-> lastFetch.data[a], timestamp |-> now]

\* C6 witness: an entry of age exactly 240 s was reported absent and then
\* overwritten by a put with another price.
C6_Witness ==
    /\ lastFetch.outcome = "ok"
    /\ \E a \in Range(lastFetch.ids) :
        /\ a \in DOMAIN lastFetch.cacheAtCall
        /\ lastFetch.calledAt - lastFetch.cacheAtCall[a].timestamp = 240
        /\ a \in DOMAIN lastFetch.data
        /\ lastFetch.data[a] \in FetchPrices
        /\ lastFetch.data[a] # lastFetch.cacheAtCall[a].data
        /\ price_cache[a].data = lastFetch.data[a]

\* C7: a call whose assets are all fresh in the cache issues no request and
\* returns exactly the cached prices; any other call issues one request whose
\* ids are exactly the assets that are not fresh, each once.
C7_RequestOnlyUncached ==
    /\ Returned =>
        IF LastFresh = Range(lastFetch.assets)
        THEN /\ ~lastFetch.requested
             /\ lastFetch.result =
                    [a \in LastFresh |-> lastFetch.cacheAtCall[a].data]
        ELSE /\ lastFetch.requested
             /\ Range(lastFetch.ids) = Range(lastFetch.assets) \ LastFresh
             /\ Len(lastFetch.ids) = Cardinality(Range(lastFetch.ids))
    /\ \A c \in Callers : fetch[c].state = "waiting" =>
        /\ fetch[c].uncached # << >>
        /\ Range(fetch[c].uncached) =
              Range(fetch[c].assets)
                \ FreshAt(fetch[c].assets, fetch[c].cacheAtCall, fetch[c].calledAt)
        /\ Len(fetch[c].uncached) = Cardinality(Range(fetch[c].uncached))

\* C7 witness: a call for two assets, one fresh and one stale, requested only
\* the stale one.
C7_Witness ==
    /\ Returned
    /\ lastFetch.requested
    /\ Len(lastFetch.assets) >= 2
    /\ Len(lastFetch.ids) = 1
    /\ lastFetch.ids[1] \in DOMAIN lastFetch.cacheAtCall
    /\ LastFresh # {}

\* C8: a call whose request failed returns exactly the prices that were fresh
\* in the cache when it read it, and no price for any asset it requested.
C8_FailureReturnsCached ==
    lastFetch.outcome = "fail" =>
        /\ lastFetch.result = [a \in LastFresh |-> lastFetch.cacheAtCall[a].data]
        /\ \A a \in Range(lastFetch.ids) : a \notin DOMAIN lastFetch.result

\* C8 witness: a failed request for a stale asset while another asset was
\* served from the cache.
C8_Witness ==
    /\ lastFetch.outcome = "fail"
    /\ LastFresh # {}
    /\ \E a \in Range(lastFetch.ids) : a \in DOMAIN price_cache

\* C9: after a response whose entries all carry a price, every requested asset
\* in the response is in the cache with that price and the current time and
\* in the result; every requested asset not in the response is not in the
\* result and its cache entry is as before; the result is the union of the
\* cached and the fetched prices.
C9_SuccessStoresAndMerges ==
    lastFetch.outcome = "ok" =>
        /\ \A a \in Range(lastFetch.ids) :
            IF a \in DOMAIN lastFetch.data
            THEN /\ a \in DOMAIN price_cache
                 /\ price_cache[a] = [data |-> lastFetch.data[a], timestamp |-> now]
                 /\ a \in DOMAIN lastFetch.result
                 /\ lastFetch.result[a] = lastFetch.data[a]
            ELSE /\ a \notin DOMAIN lastFetch.result
                 /\ (a \in DOMAIN price_cache) = (a \in DOMAIN lastFetch.cacheBefore)
                 /\ a \in DOMAIN price_cache =>
                        price_cache[a] = lastFetch.cacheBefore[a]
        /\ DOMAIN lastFetch.result =
              LastFresh \cup (Range(lastFetch.ids) \cap DOMAIN lastFetch.data)
        /\ \A a \in LastFresh :
              lastFetch.result[a] = lastFetch.cacheAtCall[a].data

\* C9 witness: one response with a price for one requested asset and none for
\* another, the first overwriting a stale entry.
C9_Witness ==
    /\ lastFetch.outcome = "ok"
    /\ \E a, b \in Range(lastFetch.ids) :
        /\ a \in DOMAIN lastFetch.data
        /\ a \in DOMAIN lastFetch.cacheBefore
        /\ b \notin DOMAIN lastFetch.data
        /\ b \in DOMAIN price_cache

\* C10: every price of a returned mapping is the price the source gave for
\* that asset in this call, or the price of a cache entry that was younger
\* than 240 s when the call read the cache.
C10_NoStalePrice ==
    Returned =>
        \A a \in DOMAIN lastFetch.result :
            \/ /\ a \in Range(lastFetch.ids)
               /\ a \in DOMAIN lastFetch.data
               /\ lastFetch.result[a] = lastFetch.data[a]
            \/ /\ a \in DOMAIN lastFetch.cacheAtCall
               /\ lastFetch.calledAt - lastFetch.cacheAtCall[a].timestamp < 240
               /\ lastFetch.result[a] = lastFetch.cacheAtCall[a].data

\* C10 witness: a mapping with a cached price of age 200 s, returned while an
\* older entry of another asset was not served.
C10_Witness ==
    /\ Returned
    /\ \E a \in DOMAIN lastFetch.result :
        /\ a \in LastFresh
        /\ lastFetch.calledAt - lastFetch.cacheAtCall[a].timestamp = 200
    /\ \E b \in Range(lastFetch.ids) :
        /\ b \in DOMAIN lastFetch.cacheAtCall
        /\ b \notin DOMAIN lastFetch.result


\* C24: the price cache has a single writer: it changes only in a step in
\* which the fetch of the evaluation cycle returns, never in a step of a
\* command handler.
C24_CacheSingleWriter ==
    [][price_cache' # price_cache =>
          fetch["cycle"].state = "waiting" /\ fetch'["cycle"].state = "idle"]_vars


\* The assets whose cache entry the last call added or overwrote.
WrittenByLast ==
    {a \in DOMAIN price_cache :
        a \notin DOMAIN lastFetch.cacheAtCall \/ price_cache[a] # lastFetch.cacheAtCall[a]}

\* C34: when fetch_prices returns through a failure branch (request error,
\* or unexpected error while processing the response) the price cache is as
\* it was before the call, and every price a call wrote to the cache is in
\* the result of that call.
C34_FailureLeavesCache ==
    /\ lastFetch.outcome \in {"fail", "error"} => price_cache = lastFetch.cacheAtCall
    /\ Returned =>
          \A a \in WrittenByLast :
              /\ a \in DOMAIN lastFetch.result
              /\ lastFetch.result[a] = price_cache[a].data

(***************************************************************************)
(* db.py: users and subscriptions.                                         *)
(***************************************************************************)
\* db.py check_subscription_limits: a free user holds at most 2 alerts.
FREE_LIMIT == 2
\* bot.py handle_payment_callback: upgrade_subscription(chat_id, 0.25), that
\* is timedelta(days=30 * 0.25), in seconds.
TRIAL_SECONDS == 648000

\* The columns of the UNIQUE constraint of table subscriptions.
UniqueKey(row) == <<row.chat_id, row.asset, row.threshold, row.alert_type>>

\* The (owner, asset, direction) of a subscription or notification row.
TupleOf(row) == <<row.chat_id, row.asset, row.alert_type>>

\* The row INSERT OR REPLACE INTO users leaves: every column that is not
\* named gets its default.
NewUser == [type |-> "free", expires |-> None, alerts |-> 0]

\* create_or_update_user(chat_id)
create_or_update_user(us, chat_id) ==
    [k \in (DOMAIN us) \cup {chat_id} |-> IF k = chat_id THEN NewUser ELSE us[k]]

\* get_user_subscription(chat_id): the dict returned and the users table left.
get_user_subscription(us, chat_id) ==
    IF chat_id \in DOMAIN us
    THEN [user |-> us[chat_id], users |-> us]
    ELSE [user |-> NewUser, users |-> create_or_update_user(us, chat_id)]

\* upgrade_subscription(chat_id, months) with seconds = 30 days * months.
upgrade_subscription(us, chat_id, seconds, t) ==
    [k \in DOMAIN us |->
        IF k = chat_id
        THEN [us[k] EXCEPT !.type = "premium", !.expires = t + seconds]
        ELSE us[k]]

\* list_subscriptions(chat_id)
list_subscriptions(subs, chat_id) ==
    SelectSeq(subs, LAMBDA r : r.chat_id = chat_id /\ r.is_active)

\* get_all_active_subscriptions()
\* The query with LIMIT 1 from the end of the table.
get_all_active_subscriptions_last(subs) ==
    LET act == SelectSeq(subs, LAMBDA r : r.is_active)
    IN IF act = << >> THEN << >> ELSE <<act[Len(act)]>>

get_all_active_subscriptions(subs) ==
    SelectSeq(subs, LAMBDA r : r.is_active)

\* check_subscription_limits(chat_id): (allowed, reason) and the users table
\* left (the user row created, an expired premium downgraded).
check_subscription_limits(us, subs, chat_id, t) ==
    LET g == get_user_subscription(us, chat_id) IN
    IF g.user.type = "premium"
    THEN IF g.user.expires # None /\ g.user.expires > t
         THEN [allowed |-> TRUE, reason |-> "premium_active", users |-> g.users]
         ELSE [allowed |-> FALSE, reason |-> "premium_expired",
               users |-> [g.users EXCEPT ![chat_id].type = "free"]]
    ELSE IF Len(list_subscriptions(subs, chat_id)) >= FREE_LIMIT
         THEN [allowed |-> FALSE, reason |-> "free_limit_reached", users |-> g.users]
         ELSE [allowed |-> TRUE, reason |-> "free_ok", users |-> g.users]

\* The with-block of add_subscription: the INSERT, and on IntegrityError the
\* UPDATE of every row of (chat_id, asset, alert_type).  The UPDATE itself
\* violates the UNIQUE constraint when it makes two rows equal; that
\* IntegrityError leaves the function.
InsertOrUpdate(subs, chat_id, asset, threshold, alert_type) ==
    LET new == [chat_id |-> chat_id, asset |-> asset, threshold |-> threshold,
                alert_type |-> alert_type, is_active |-> TRUE]
        matches == {i \in 1..Len(subs) : TupleOf(subs[i]) = TupleOf(new)}
    IN IF \A i \in 1..Len(subs) : UniqueKey(subs[i]) # UniqueKey(new)
       THEN [subscriptions |-> Append(subs, new), result |-> "success"]
       ELSE IF Cardinality(matches) >= 2
       THEN [subscriptions |-> subs, result |-> "IntegrityError"]
       ELSE [subscriptions |->
                [i \in 1..Len(subs) |->
                    IF i \in matches
                    THEN [subs[i] EXCEPT !.threshold = threshold, !.is_active = TRUE]
                    ELSE subs[i]],
             result |-> "updated"]

\* add_subscription(chat_id, asset, threshold, alert_type)
add_subscription(us, subs, chat_id, asset, threshold, alert_type, t) ==
    LET l == check_subscription_limits(us, subs, chat_id, t) IN
    IF ~l.allowed
    THEN [users |-> l.users, subscriptions |-> subs, ok |-> FALSE, result |-> l.reason]
    ELSE LET w == InsertOrUpdate(subs, chat_id, asset, threshold, alert_type)
         IN [users |-> l.users, subscriptions |-> w.subscriptions,
             ok |-> w.result # "IntegrityError", result |-> w.result]

\* The DELETE without its conn.commit(): closing the connection rolls it back.
remove_subscription_nocommit(subs, chat_id, asset, alert_type) ==
    LET gone(r) == r.chat_id = chat_id /\ r.asset = asset /\ r.alert_type = alert_type
    IN [subscriptions |-> subs,
        result |-> \E i \in 1..Len(subs) : gone(subs[i])]

\* The DELETE without the alert_type of its WHERE clause.
remove_subscription_anytype(subs, chat_id, asset, alert_type) ==
    LET gone(r) == r.chat_id = chat_id /\ r.asset = asset
    IN [subscriptions |-> SelectSeq(subs, LAMBDA r : ~gone(r)),
        result |-> \E i \in 1..Len(subs) : gone(subs[i])]

\* remove_subscription(chat_id, asset, alert_type): the rows left and
\* cursor.rowcount > 0.
remove_subscription(subs, chat_id, asset, alert_type) ==
    LET gone(r) == r.chat_id = chat_id /\ r.asset = asset /\ r.alert_type = alert_type
    IN [subscriptions |-> SelectSeq(subs, LAMBDA r : ~gone(r)),
        result |-> \E i \in 1..Len(subs) : gone(subs[i])]

(***************************************************************************)
(* SpecStore: the command handlers of bot.py that write users and          *)
(* subscriptions, while the clock advances.                                *)
(***************************************************************************)
\* Rows the subscriptions table may hold in a behaviour.
MaxSubs == 2
\* Number of clock advances in a behaviour of SpecStore.
MaxStoreTicks == 1

Owners == {42, 7}
StoreAssets == {"bitcoin"}
Thresholds == {40000, 50000}
AlertTypes == {"price_above", "price_below"}
StoreDeltas == {648000}

InitStore ==
    /\ InitJobs
    /\ InitLock
    /\ InitEnv
    /\ history = [on |-> FALSE, log |-> << >>]
    /\ users = EmptyMap
    /\ subscriptions = << >>
    /\ notifications = << >>
    /\ lastOp = NoOp

\* bot.py alert_command
AlertCommand ==
    /\ \E o \in Owners, a \in StoreAssets, th \in Thresholds, ty \in AlertTypes :
        LET r == add_subscription(users, subscriptions, o, a, th, ty, now) IN
        /\ Len(r.subscriptions) <= MaxSubs
        /\ users' = r.users
        /\ subscriptions' = r.subscriptions
        /\ lastOp' = [op |-> "add", chat_id |-> o, asset |-> a, threshold |-> th,
                      alert_type |-> ty, ok |-> r.ok, result |-> r.result,
                      before |-> subscriptions]
    /\ UNCHANGED <<clockVars, cacheVars, lockVars, envVars, cycleVars, notifications>>

\* bot.py remove_alert_command
RemoveAlertCommand ==
    /\ \E o \in Owners, a \in StoreAssets, ty \in AlertTypes :
        LET r == remove_subscription(subscriptions, o, a, ty) IN
        /\ subscriptions' = r.subscriptions
        /\ lastOp' = [op |-> "remove", chat_id |-> o, asset |-> a,
                      alert_type |-> ty, ok |-> r.result, result |-> "removed",
                      before |-> subscriptions]
    /\ UNCHANGED <<clockVars, cacheVars, lockVars, envVars, cycleVars, users, notifications>>

\* bot.py start
StartCommand ==
    /\ \E o \in Owners :
        /\ users' = create_or_update_user(users, o)
        /\ lastOp' = [op |-> "start", chat_id |-> o]
    /\ UNCHANGED <<clockVars, cacheVars, lockVars, envVars, cycleVars, subscriptions, notifications>>

\* bot.py handle_payment_callback, "trial_premium"
TrialPremium ==
    /\ \E o \in Owners :
        /\ users' = upgrade_subscription(users, o, TRIAL_SECONDS, now)
        /\ lastOp' = [op |-> "upgrade", chat_id |-> o]
    /\ UNCHANGED <<clockVars, cacheVars, lockVars, envVars, cycleVars, subscriptions, notifications>>

ClockStore == \E d \in StoreDeltas : Tick(d, MaxStoreTicks)

NextStore ==
    AlertCommand \/ RemoveAlertCommand \/ StartCommand \/ TrialPremium \/ ClockStore

SpecStore == InitStore /\ [][NextStore]_vars

\* The rows of the table for the (owner, asset, direction) of row r.
RowsOf(subs, chat_id, asset, alert_type) ==
    {i \in 1..Len(subs) : TupleOf(subs[i]) = <<chat_id, asset, alert_type>>}

\* C3: the table holds at most one row per (owner, asset, direction), and
\* after a successful subscribe the one row of its tuple carries the
\* threshold just given.
C3_OneRowPerTuple ==
    /\ \A i, j \in 1..Len(subscriptions) :
        TupleOf(subscriptions[i]) = TupleOf(subscriptions[j]) => i = j
    /\ (lastOp.op = "add" /\ lastOp.ok) =>
        \A i \in RowsOf(subscriptions, lastOp.chat_id, lastOp.asset, lastOp.alert_type) :
            subscriptions[i].threshold = lastOp.threshold


\* The rows of subs outside the (owner, asset, direction) of the last command.
OtherRows(subs) ==
    SelectSeq(subs, LAMBDA r : TupleOf(r) # <<lastOp.chat_id, lastOp.asset, lastOp.alert_type>>)

\* C26: remove_subscription answers true exactly when the table held a row
\* for the (owner, asset, direction); afterwards the table holds no row for
\* it, and the rows of every other tuple are as they were.
C26_RemoveSubscription ==
    lastOp.op = "remove" =>
        /\ lastOp.ok <=>
               RowsOf(lastOp.before, lastOp.chat_id, lastOp.asset, lastOp.alert_type) # {}
        /\ RowsOf(subscriptions, lastOp.chat_id, lastOp.asset, lastOp.alert_type) = {}
        /\ OtherRows(subscriptions) = OtherRows(lastOp.before)

\* C26 witness: a removal that found its row and left the row of another
\* tuple in the table.
C26_Witness ==
    /\ lastOp.op = "remove"
    /\ lastOp.ok
    /\ Len(subscriptions) >= 1
    /\ Len(lastOp.before) > Len(subscriptions)

\* C27: add_subscription, when it accepts, answers "success" exactly when the
\* table held no row for the (owner, asset, direction) and "updated" exactly
\* when it held one, whatever the thresholds; afterwards a row of the tuple
\* carries the threshold given.
C27_AddSubscriptionAnswer ==
    (lastOp.op = "add" /\ lastOp.result \in {"success", "updated", "IntegrityError"}) =>
        LET had == RowsOf(lastOp.before, lastOp.chat_id, lastOp.asset, lastOp.alert_type) # {}
        IN /\ lastOp.result = (IF had THEN "updated" ELSE "success")
           /\ \E i \in RowsOf(subscriptions, lastOp.chat_id, lastOp.asset, lastOp.alert_type) :
                  subscriptions[i].threshold = lastOp.threshold


\* C37: create_or_update_user for a user that exists leaves the user's
\* subscription tier, its expiry and the count of alerts sent as they were.
C37_StartKeepsSubscription ==
    [][(lastOp'.op = "start" /\ lastOp'.chat_id \in DOMAIN users) =>
          /\ users'[lastOp'.chat_id].type = users[lastOp'.chat_id].type
          /\ users'[lastOp'.chat_id].expires = users[lastOp'.chat_id].expires
          /\ users'[lastOp'.chat_id].alerts = users[lastOp'.chat_id].alerts]_vars

(***************************************************************************)
(* db.py: the notification log and the anti-spam throttle.                 *)
(***************************************************************************)
\* db.py should_send_notification: datetime('now', '-4 hours'), in seconds.
THROTTLE_WINDOW == 14400

Abs(x) == IF x < 0 THEN -x ELSE x

\* ABS(price - current_price) < threshold * 0.02, in exact arithmetic.
\* The tolerance at 5% of the threshold.
WithinToleranceWide(price, current_price, threshold) ==
    20 * Abs(price - current_price) < threshold

WithinToleranceOfPrice(price, current_price, threshold) ==
    5000 * Abs(price - current_price) < current_price

WithinTolerance(price, current_price, threshold) ==
    50 * Abs(price - current_price) < threshold

\* should_send_notification that does not compare alert_type.
should_send_notification_anytype(notifs, chat_id, asset, current_price, threshold, alert_type, t) ==
    ~ \E i \in 1..Len(notifs) :
        /\ notifs[i].chat_id = chat_id
        /\ notifs[i].asset = asset
        /\ notifs[i].sent_at > t - THROTTLE_WINDOW
        /\ WithinTolerance(notifs[i].price, current_price, threshold)

\* The lookup without the chat_id of its WHERE clause.
should_send_notification_anyowner(notifs, chat_id, asset, current_price, threshold, alert_type, t) ==
    ~ \E i \in 1..Len(notifs) :
        /\ notifs[i].asset = asset
        /\ notifs[i].alert_type = alert_type
        /\ notifs[i].sent_at > t - THROTTLE_WINDOW
        /\ WithinTolerance(notifs[i].price, current_price, threshold)

\* The lookup that only counts records written for the same threshold.
should_send_notification_samethreshold(notifs, chat_id, asset, current_price, threshold, alert_type, t) ==
    ~ \E i \in 1..Len(notifs) :
        /\ notifs[i].chat_id = chat_id
        /\ notifs[i].asset = asset
        /\ notifs[i].alert_type = alert_type
        /\ notifs[i].threshold = threshold
        /\ notifs[i].sent_at > t - THROTTLE_WINDOW
        /\ WithinTolerance(notifs[i].price, current_price, threshold)

\* should_send_notification(chat_id, asset, current_price, threshold,
\* alert_type) at clock value t: COUNT(*) of the matching rows is 0.
should_send_notification(notifs, chat_id, asset, current_price, threshold, alert_type, t) ==
    ~ \E i \in 1..Len(notifs) :
        /\ notifs[i].chat_id = chat_id
        /\ notifs[i].asset = asset
        /\ notifs[i].alert_type = alert_type
        /\ notifs[i].sent_at > t - THROTTLE_WINDOW
        /\ WithinTolerance(notifs[i].price, current_price, threshold)

\* log_notification: the INSERT INTO notifications.
log_notification(notifs, chat_id, asset, alert_type, price, threshold, t) ==
    Append(notifs, [chat_id |-> chat_id, asset |-> asset, alert_type |-> alert_type,
                    price |-> price, threshold |-> threshold, sent_at |-> t])

\* log_notification: UPDATE users SET total_alerts_sent = total_alerts_sent + 1.
CountAlert(us, chat_id) ==
    [k \in DOMAIN us |->
        IF k = chat_id THEN [us[k] EXCEPT !.alerts = us[k].alerts + 1] ELSE us[k]]

(***************************************************************************)
(* SpecThrottle: notification records are logged, the clock advances and   *)
(* the throttle is asked about candidate alerts.                           *)
(***************************************************************************)
\* Rows the notifications table may hold in a behaviour of SpecThrottle.
MaxRecords == 2
\* Number of clock advances in a behaviour of SpecThrottle.
MaxThrottleTicks == 2

ThrottleDeltas == {3600, 10800}
\* The (owner, asset, direction) tuples of SpecThrottle: one tuple and one
\* that differs from it in each component.
ThrottleTuples ==
    {<<42, "bitcoin", "price_above">>, <<7, "bitcoin", "price_above">>,
     <<42, "ethereum", "price_above">>, <<42, "bitcoin", "price_below">>}
RecordPrices == {50000, 52000}
QueryPrices == {50000, 50500, 51000, 52000}
QueryThresholds == {25000, 50000}

InitThrottle ==
    /\ InitJobs
    /\ InitLock
    /\ InitEnv
    /\ history = [on |-> FALSE, log |-> << >>]
    /\ users = EmptyMap
    /\ subscriptions = << >>
    /\ notifications = << >>
    /\ lastOp = NoOp

\* A sent alert is logged.
LogRecord ==
    /\ Len(notifications) < MaxRecords
    /\ \E k \in ThrottleTuples, p \in RecordPrices :
        /\ notifications' = log_notification(notifications, k[1], k[2], k[3], p, 50000, now)
        /\ users' = CountAlert(users, k[1])
    /\ lastOp' = NoOp
    /\ UNCHANGED <<clockVars, cacheVars, lockVars, envVars, cycleVars, subscriptions>>

\* The throttle is asked about a candidate alert.  The lookup changes no
\* table, so one answer is kept at a time.
ThrottleQuery ==
    /\ lastOp = NoOp
    /\ \E k \in ThrottleTuples, p \in QueryPrices, th \in QueryThresholds :
        lastOp' = [op |-> "should_send", chat_id |-> k[1], asset |-> k[2],
                   alert_type |-> k[3], price |-> p, threshold |-> th,
                   result |-> should_send_notification(notifications, k[1], k[2],
                                                       p, th, k[3], now)]
    /\ UNCHANGED <<clockVars, cacheVars, lockVars, envVars, cycleVars, users, subscriptions, notifications>>

ClockThrottle == \E d \in ThrottleDeltas : Tick(d, MaxThrottleTicks)

NextThrottle == LogRecord \/ ThrottleQuery \/ ClockThrottle

SpecThrottle == InitThrottle /\ [][NextThrottle]_vars

\* The records of the (owner, asset, direction) of the query that has just
\* been answered that are younger than 4 hours.
RecentSameTuple ==
    {i \in 1..Len(notifications) :
        /\ notifications[i].chat_id = lastOp.chat_id
        /\ notifications[i].asset = lastOp.asset
        /\ notifications[i].alert_type = lastOp.alert_type
        /\ now - notifications[i].sent_at < 14400}

\* C2 as stated: the throttle denies exactly when a record of the same
\* (owner, asset, direction) younger than 4 hours has a price within 2% of the
\* observed price, measured relative to the observed price.
C2_DenyWithinTwoPercentOfPrice ==
    lastOp.op = "should_send" =>
        (lastOp.result = FALSE) <=>
            \E i \in RecentSameTuple :
                100 * Abs(notifications[i].price - lastOp.price) < 2 * lastOp.price

\* C2 amended: the throttle denies exactly when a record of the same (owner,
\* asset, direction) younger than 4 hours has a price that differs from the
\* observed price by less than 2% of the threshold passed to the call.
C2_DenyWithinTwoPercentOfThreshold ==
    lastOp.op = "should_send" =>
        (lastOp.result = FALSE) <=>
            \E i \in RecentSameTuple :
                100 * Abs(notifications[i].price - lastOp.price) < 2 * lastOp.threshold

\* C2 witness: a query is denied because of a record sent one hour earlier,
\* while the table also holds a record of another tuple.
C2_Witness ==
    /\ lastOp.op = "should_send"
    /\ lastOp.result = FALSE
    /\ \E i \in RecentSameTuple : now - notifications[i].sent_at = 3600
    /\ \E i \in 1..Len(notifications) : i \notin RecentSameTuple

\* The records of the (owner, asset, direction) of the query that has just
\* been answered, of any age.
SameTuple ==
    {i \in 1..Len(notifications) :
        /\ notifications[i].chat_id = lastOp.chat_id
        /\ notifications[i].asset = lastOp.asset
        /\ notifications[i].alert_type = lastOp.alert_type}

\* The only record of the tuple of the query was sent one hour ago at price
\* 50000, and the query passes the threshold 50000.
RecordOneHourAgo ==
    /\ lastOp.op = "should_send"
    /\ lastOp.threshold = 50000
    /\ Cardinality(SameTuple) = 1
    /\ \A i \in SameTuple :
        /\ notifications[i].price = 50000
        /\ now - notifications[i].sent_at = 3600

\* C14: with a record sent one hour ago at price 50000 for threshold 50000, a
\* trigger of the same (owner, asset, direction) at price 50500 is suppressed
\* and one at price 52000 is approved.
C14_OnePercentSuppressedFourPercentApproved ==
    RecordOneHourAgo =>
        /\ lastOp.price = 50500 => lastOp.result = FALSE
        /\ lastOp.price = 52000 => lastOp.result = TRUE

\* The query at 50500 was answered, and denied, one hour after the record at
\* 50000, while the table also holds a record of another tuple.
C14_Witness ==
    /\ RecordOneHourAgo
    /\ lastOp.price = 50500
    /\ lastOp.result = FALSE
    /\ Len(notifications) = 2

\* C15: a trigger whose price differs from the price of the last notification
\* of its (owner, asset, direction) by more than the tolerance (2% of the
\* threshold and 2% of the price alike) is approved, whatever earlier
\* notifications of the tuple the 4-hour window holds.
C15_ApprovedWhenFarFromLastNotification ==
    (lastOp.op = "should_send" /\ SameTuple # {}) =>
        LET last == CHOOSE i \in SameTuple : \A j \in SameTuple : j <= i
            diff == Abs(notifications[last].price - lastOp.price)
        IN (50 * diff > lastOp.threshold /\ 50 * diff > lastOp.price)
               => lastOp.result = TRUE


\* The records of another owner, another asset or another direction than
\* those of the last query.
Foreign ==
    {i \in 1..Len(notifications) :
        <<notifications[i].chat_id, notifications[i].asset, notifications[i].alert_type>>
            # <<lastOp.chat_id, lastOp.asset, lastOp.alert_type>>}

\* The notification log without the records at the indices in S.
Without(S) ==
    LET keep == {i \in 1..Len(notifications) : i \notin S}
        F[k \in 0..Len(notifications)] ==
            IF k = 0 THEN << >>
            ELSE IF k \in keep THEN Append(F[k - 1], notifications[k]) ELSE F[k - 1]
    IN F[Len(notifications)]

\* C36: the throttle decision depends only on the owner's own records for
\* the same asset and direction: with any of the records of other owners,
\* other assets or other directions taken away the answer is the same.
C36_ThrottleIgnoresForeignRecords ==
    lastOp.op = "should_send" =>
        \A S \in SUBSET Foreign :
            should_send_notification(Without(S), lastOp.chat_id, lastOp.asset,
                                     lastOp.price, lastOp.threshold,
                                     lastOp.alert_type, now) = lastOp.result

\* C36 witness: a query approved although the log holds a record of another
\* owner for the same asset and direction at the same price, inside the
\* window.
C36_Witness ==
    /\ lastOp.op = "should_send"
    /\ lastOp.result
    /\ \E i \in Foreign :
        /\ notifications[i].chat_id # lastOp.chat_id
        /\ notifications[i].asset = lastOp.asset
        /\ notifications[i].alert_type = lastOp.alert_type
        /\ notifications[i].price = lastOp.price
        /\ notifications[i].sent_at > now - THROTTLE_WINDOW

(***************************************************************************)
(* jobs.py: check_prices, send_advanced_alert, check_percentage_alerts.    *)
(***************************************************************************)
\* check_prices: now - _last_cleanup > timedelta(hours=1), in seconds.
CLEANUP_INTERVAL == 3600
\* cleanup_old_notifications: datetime('now', '-30 days'), in seconds.
RETENTION == 2592000

\* The alert condition with strict comparisons.
ShouldTriggerStrict(alert_type, current_price, threshold) ==
    \/ alert_type = "price_above" /\ current_price > threshold
    \/ alert_type = "price_below" /\ current_price < threshold

\* The test with percent_change rows triggering as price_above rows do.
ShouldTriggerPercent(alert_type, current_price, threshold) ==
    \/ alert_type \in {"price_above", "percent_change"} /\ current_price >= threshold
    \/ alert_type = "price_below" /\ current_price <= threshold

\* check_prices: alert_triggered.  "percent_change" and any other alert_type
\* leave it False.
ShouldTrigger(alert_type, current_price, threshold) ==
    \/ alert_type = "price_above" /\ current_price >= threshold
    \/ alert_type = "price_below" /\ current_price <= threshold

\* cleanup_old_notifications with '-3 days' for '-30 days'.
cleanup_old_notifications_3days(notifs, t) ==
    SelectSeq(notifs, LAMBDA n : ~(10 * n.sent_at < 10 * t - RETENTION))

\* cleanup_old_notifications()
cleanup_old_notifications(notifs, t) ==
    SelectSeq(notifs, LAMBDA n : ~(n.sent_at < t - RETENTION))

\* check_percentage_alerts: abs(percent_change) > 15 for an asset whose
\* hash(asset) is h.  price_24h_ago = price * (1 + x) with
\* x = ((0.1 * h) % 100) / 1000 = (h % 1000) / 10000, and
\* percent_change = -100 * x / (1 + x).
SignificantMove(h) ==
    LET r == h % 1000 IN 100 * r > 15 * (10000 + r)

\* check_percentage_alerts: the premium users that hold a row for the asset.
PremiumSubscribers(us, subs, asset, t) ==
    {o \in DOMAIN us :
        /\ us[o].type = "premium"
        /\ us[o].expires # None
        /\ us[o].expires > t
        /\ \E i \in 1..Len(subs) : subs[i].chat_id = o /\ subs[i].asset = asset}

\* check_percentage_alerts(current_prices): the (user, asset) pairs that get a
\* "price_movement" alert, each sent and logged with threshold 0.
MovementAlerts(prices, hashOf, us, subs, notifs, t) ==
    {x \in (DOMAIN us) \X (DOMAIN prices) :
        /\ SignificantMove(hashOf[x[2]])
        /\ x[1] \in PremiumSubscribers(us, subs, x[2], t)
        /\ should_send_notification(notifs, x[1], x[2], prices[x[2]], 0,
                                    "price_movement", t)}

RECURSIVE LogMovements(_, _, _, _)
LogMovements(notifs, alerts, prices, t) ==
    IF alerts = {}
    THEN notifs
    ELSE LET x == CHOOSE y \in alerts : TRUE
         IN LogMovements(log_notification(notifs, x[1], x[2], "price_movement",
                                          prices[x[2]], None, t),
                         alerts \ {x}, prices, t)

\* The message send_advanced_alert hands to bot.send_message.
Message(sub, price, t) ==
    [chat_id |-> sub.chat_id, asset |-> sub.asset, alert_type |-> sub.alert_type,
     price |-> price, threshold |-> sub.threshold, at |-> t]

\* send_advanced_alert with log_notification ahead of bot.send_message.
send_advanced_alert_logfirst(us, notifs, sub, price, outcome, t) ==
    LET us1 == get_user_subscription(us, sub.chat_id).users IN
    [users |-> IF outcome # "logfail" THEN CountAlert(us1, sub.chat_id) ELSE us1,
     notifications |->
        IF outcome # "logfail"
        THEN log_notification(notifs, sub.chat_id, sub.asset, sub.alert_type,
                              price, sub.threshold, t)
        ELSE notifs,
     sent |-> IF outcome = "ok" THEN {Message(sub, price, t)} ELSE {},
     result |-> outcome = "ok"]

\* send_advanced_alert with log_notification in a finally block, reached
\* after a send error too.
send_advanced_alert_logerror(us, notifs, sub, price, outcome, t) ==
    LET us1 == get_user_subscription(us, sub.chat_id).users IN
    [users |-> IF outcome \in {"ok", "error"} THEN CountAlert(us1, sub.chat_id) ELSE us1,
     notifications |->
        IF outcome \in {"ok", "error"}
        THEN log_notification(notifs, sub.chat_id, sub.asset, sub.alert_type,
                              price, sub.threshold, t)
        ELSE notifs,
     sent |-> IF outcome \in {"ok", "logfail"} THEN {Message(sub, price, t)} ELSE {},
     result |-> outcome = "ok"]

\* send_advanced_alert returning True once the message is sent, whatever
\* log_notification does.
send_advanced_alert_countsent(us, notifs, sub, price, outcome, t) ==
    LET us1 == get_user_subscription(us, sub.chat_id).users IN
    [users |-> IF outcome = "ok" THEN CountAlert(us1, sub.chat_id) ELSE us1,
     notifications |->
        IF outcome = "ok"
        THEN log_notification(notifs, sub.chat_id, sub.asset, sub.alert_type,
                              price, sub.threshold, t)
        ELSE notifs,
     sent |-> IF outcome \in {"ok", "logfail"} THEN {Message(sub, price, t)} ELSE {},
     result |-> outcome \in {"ok", "logfail"}]

\* send_advanced_alert(chat_id, asset, price, threshold, alert_type) with the
\* outcome of its calls: "ok", "blocked" (send_message raises Unauthorized),
\* "error" (send_message raises anything else), "logfail" (the message is
\* sent and log_notification raises).  It returns True only for "ok".
send_advanced_alert(us, notifs, sub, price, outcome, t) ==
    LET us1 == get_user_subscription(us, sub.chat_id).users IN
    [users |-> IF outcome = "ok" THEN CountAlert(us1, sub.chat_id) ELSE us1,
     notifications |->
        IF outcome = "ok"
        THEN log_notification(notifs, sub.chat_id, sub.asset, sub.alert_type,
                              price, sub.threshold, t)
        ELSE notifs,
     sent |-> IF outcome \in {"ok", "logfail"} THEN {Message(sub, price, t)} ELSE {},
     result |-> outcome = "ok"]

\* The loop passing over every row unless every asset has a price.
OutcomesForAllOrNothing(sub, prices, notifs, t) ==
    IF DOMAIN prices # Assets THEN {"skip"}
    ELSE IF ~ShouldTrigger(sub.alert_type, prices[sub.asset], sub.threshold)
    THEN {"nomatch"}
    ELSE {"lookupfail"} \cup
         (IF should_send_notification(notifs, sub.chat_id, sub.asset,
                                      prices[sub.asset], sub.threshold,
                                      sub.alert_type, t)
          THEN {"ok", "blocked", "error", "logfail"}
          ELSE {"denied"})

\* What one pass of the for loop of check_prices can do with a row: "skip"
\* (no price for the asset), "nomatch", "lookupfail" (the throttle lookup
\* raises), "denied", or an outcome of send_advanced_alert.
OutcomesFor(sub, prices, notifs, t) ==
    IF sub.asset \notin DOMAIN prices THEN {"skip"}
    ELSE IF ~ShouldTrigger(sub.alert_type, prices[sub.asset], sub.threshold)
    THEN {"nomatch"}
    ELSE {"lookupfail"} \cup
         (IF should_send_notification(notifs, sub.chat_id, sub.asset,
                                      prices[sub.asset], sub.threshold,
                                      sub.alert_type, t)
          THEN {"ok", "blocked", "error", "logfail"}
          ELSE {"denied"})

\* One pass of the for loop of check_prices: the tables it leaves, the
\* messages delivered, the throttle lookups made and whether an exception
\* left the loop.
EvalRow(us, notifs, sub, prices, outcome, t) ==
    IF outcome \in {"skip", "nomatch"}
    THEN [users |-> us, notifications |-> notifs, sent |-> {}, lookups |-> 0,
          triggered |-> FALSE, counted |-> FALSE, raised |-> FALSE]
    ELSE IF outcome \in {"lookupfail", "denied"}
    THEN [users |-> us, notifications |-> notifs, sent |-> {}, lookups |-> 1,
          triggered |-> TRUE, counted |-> FALSE, raised |-> outcome = "lookupfail"]
    ELSE LET r == send_advanced_alert(us, notifs, sub, prices[sub.asset], outcome, t)
         IN [users |-> r.users, notifications |-> r.notifications, sent |-> r.sent,
             lookups |-> 1, triggered |-> TRUE, counted |-> r.result,
             raised |-> FALSE]

\* A cycle ended: the history, where it is kept, gets the time of the cycle,
\* the prices it saw, its passes and the notifications table it leaves.
Ended(at, prices, evals, notifs) ==
    IF history.on
    THEN [history EXCEPT !.log = Append(@, [at |-> at, prices |-> prices,
                                            evals |-> evals, records |-> notifs])]
    ELSE history

\* check_prices without the test of the returned mapping.
AfterFetchNoCheck(subs, prices) ==
    [pc |-> "eval", subs |-> subs, idx |-> 1, prices |-> prices, alerts_sent |-> 0]

\* check_prices after fetch_prices returned: an empty mapping ends the cycle.
AfterFetch(subs, prices) ==
    IF DOMAIN prices = {}
    THEN Idle
    ELSE [pc |-> "eval", subs |-> subs, idx |-> 1, prices |-> prices,
          alerts_sent |-> 0]

\* The orders list(set(...)) may give the assets of the rows.
AssetOrders(subs) ==
    LET S == {subs[i].asset : i \in 1..Len(subs)}
    IN {o \in AssetLists : Range(o) = S /\ Len(o) = Cardinality(S)}

\* check_prices up to the call of fetch_prices and into it.
CycleStart ==
    /\ cycle.pc = "idle"
    /\ fetch["cycle"].state = "idle"
    /\ ncycles' = ncycles + 1
    /\ evalLog' = << >>
    /\ LET subs == get_all_active_subscriptions(subscriptions) IN
       IF subs = << >>
       THEN /\ cycle' = Idle
            /\ history' = Ended(now, EmptyMap, << >>, notifications)
            /\ UNCHANGED <<clockVars, cacheVars, lockVars, envVars>>
       ELSE \E order \in AssetOrders(subs) :
            /\ FetchBegin("cycle", order)
            /\ cycle' = IF fetch'["cycle"].state = "waiting"
                        THEN [pc |-> "fetch", subs |-> subs]
                        ELSE AfterFetch(subs, lastFetch'.result)
            /\ history' = IF cycle'.pc = "idle"
                          THEN Ended(now, EmptyMap, << >>, notifications)
                          ELSE history
    /\ UNCHANGED <<envVars, storeVars, last_cleanup, outbox>>

\* fetch_prices returned to check_prices.
CycleFetched ==
    /\ cycle' = AfterFetch(cycle.subs, lastFetch'.result)
    /\ history' = IF cycle'.pc = "idle" THEN Ended(now, EmptyMap, << >>, notifications) ELSE history
    /\ UNCHANGED <<envVars, storeVars, last_cleanup, evalLog, outbox, ncycles>>

\* The well-formed JSON objects the price source may answer a request for
\* ids with: a price for some of the ids.
Answers(ids, prices) ==
    UNION {[S -> prices] : S \in SUBSET Range(ids)}

\* The price source answers the request of the cycle.
CycleRespond(prices) ==
    /\ cycle.pc = "fetch"
    /\ \E data \in Answers(fetch["cycle"].uncached, prices) :
        FetchRespond("cycle", data)
    /\ CycleFetched

\* The request of the cycle fails.
CycleFail ==
    /\ cycle.pc = "fetch"
    /\ FetchFail("cycle")
    /\ CycleFetched

\* One pass of the for loop over the subscriptions.  An exception of the
\* throttle lookup leaves the loop for the except branch of check_prices.
CycleEval ==
    /\ cycle.pc = "eval"
    /\ cycle.idx <= Len(cycle.subs)
    /\ LET sub == cycle.subs[cycle.idx] IN
       \E outcome \in OutcomesFor(sub, cycle.prices, notifications, now) :
         LET r == EvalRow(users, notifications, sub, cycle.prices, outcome, now)
             entry == [sub |-> sub,
                       price |-> IF outcome = "skip" THEN None
                                 ELSE cycle.prices[sub.asset],
                       outcome |-> outcome,
                       triggered |-> r.triggered,
                       lookups |-> r.lookups,
                       sent |-> r.sent # {},
                       counted |-> r.counted,
                       recorded |-> r.notifications # notifications]
         IN /\ users' = r.users
            /\ notifications' = r.notifications
            /\ outbox' = outbox \cup r.sent
            /\ evalLog' = Append(evalLog, entry)
            /\ cycle' = IF r.raised
                        THEN Idle
                        ELSE [cycle EXCEPT !.idx = @ + 1,
                                           !.alerts_sent =
                                               IF r.counted THEN @ + 1 ELSE @]
            /\ history' = IF r.raised
                          THEN Ended(now, cycle.prices, Append(evalLog, entry), r.notifications)
                          ELSE history
    /\ UNCHANGED <<clockVars, cacheVars, lockVars, envVars, subscriptions, lastOp, last_cleanup, ncycles>>

\* The hash(asset) values of the model.
HashValues == {0, 999}

\* check_prices: alerts_sent >= 10.
SUMMARY_ALERTS == 10

\* The cleanup test with >= for >.
CleanupDueAtLeast(t, last) == t - last >= CLEANUP_INTERVAL

\* check_prices: now - _last_cleanup > timedelta(hours=1)
CleanupDue(t, last) == t - last > CLEANUP_INTERVAL

\* The summary test with > for >=.
SummaryDueOver(admin, alerts_sent) == admin # None /\ alerts_sent > SUMMARY_ALERTS

\* check_prices: ADMIN_CHAT_ID and alerts_sent >= 10
SummaryDue(admin, alerts_sent) == admin # None /\ alerts_sent >= SUMMARY_ALERTS

\* The summary bot.send_message delivered to the administrator.
Summary(admin, alerts_sent, t) ==
    [chat_id |-> admin, asset |-> "all", alert_type |-> "cycle_summary",
     price |-> alerts_sent, threshold |-> None, at |-> t]

\* check_prices after the loop: check_percentage_alerts and the hourly
\* cleanup of the notifications table, whose DELETE may raise (the
\* transaction is rolled back, _last_cleanup is not assigned and the except
\* branch of check_prices ends the cycle).  When the summary for the
\* administrator is due the cycle goes on to send it.
CycleFinish ==
    /\ cycle.pc = "eval"
    /\ cycle.idx > Len(cycle.subs)
    /\ \E hashOf \in [DOMAIN cycle.prices -> HashValues] :
       \E cleaned \in IF CleanupDue(now, last_cleanup) THEN BOOLEAN ELSE {FALSE} :
        LET moves == MovementAlerts(cycle.prices, hashOf, users, subscriptions,
                                    notifications, now)
            logged == LogMovements(notifications, moves, cycle.prices, now)
            raised == CleanupDue(now, last_cleanup) /\ ~cleaned
        IN /\ notifications' = IF cleaned THEN cleanup_old_notifications(logged, now)
                                          ELSE logged
           /\ last_cleanup' = IF cleaned THEN now ELSE last_cleanup
           /\ outbox' = outbox \cup
                  {[chat_id |-> x[1], asset |-> x[2], alert_type |-> "price_movement",
                    price |-> cycle.prices[x[2]], threshold |-> None, at |-> now]
                   : x \in moves}
           /\ cycle' = IF ~raised /\ SummaryDue(admin_chat_id, cycle.alerts_sent)
                        THEN [pc |-> "summary", alerts_sent |-> cycle.alerts_sent]
                        ELSE Idle
    /\ history' = Ended(now, cycle.prices, evalLog, notifications')
    /\ evalLog' = << >>
    /\ UNCHANGED <<clockVars, cacheVars, lockVars, envVars, users, subscriptions, lastOp, ncycles>>

\* check_prices: bot.send_message(ADMIN_CHAT_ID, ...) inside try, with a bare
\* except that drops whatever the send raises.
CycleSummary ==
    /\ cycle.pc = "summary"
    /\ \E delivered \in BOOLEAN :
        outbox' = IF delivered
                  THEN outbox \cup {Summary(admin_chat_id, cycle.alerts_sent, now)}
                  ELSE outbox
    /\ cycle' = Idle
    /\ UNCHANGED <<clockVars, cacheVars, envVars, storeVars>>
    /\ UNCHANGED <<last_cleanup, evalLog, ncycles, history>>

(***************************************************************************)
(* Spec: the polling cycle over a store the command handlers left, with    *)
(* the price source, the chat transport and the clock as environment.      *)
(***************************************************************************)
\* Number of cycles started in a behaviour.
MaxCycles == 1
\* Rows of the subscriptions table in a behaviour of Spec.
MaxCycleSubs == 2
\* Number of clock advances in a behaviour of Spec.
MaxCycleTicks == 1

CyclePrices == {49000, 50000, 50200}
CycleDeltas == {14400}

\* The rows the store is drawn from: both directions of one (owner, asset)
\* and a row of another owner and asset with the reserved direction.
CycleRows ==
    {[chat_id |-> 42, asset |-> "bitcoin", threshold |-> 50000,
      alert_type |-> "price_above", is_active |-> TRUE],
     [chat_id |-> 42, asset |-> "bitcoin", threshold |-> 50000,
      alert_type |-> "price_below", is_active |-> TRUE],
     [chat_id |-> 7, asset |-> "ethereum", threshold |-> 50000,
      alert_type |-> "percent_change", is_active |-> TRUE]}

\* The row an earlier cycle may have sent and recorded an alert for, at the
\* price of its threshold and ten minutes before the behaviour starts.
EarlierSent == {r \in CycleRows : r.alert_type = "price_above"}

\* The stores of at most n rows add_subscription can leave: no two rows with
\* the same UNIQUE columns.
StoresOf(rows, n) ==
    {s \in UNION {[1..k -> rows] : k \in 0..n} :
        \A i, j \in 1..Len(s) : s[i] = s[j] => i = j}

Init ==
    /\ InitJobs
    /\ InitLock
    /\ InitEnv
    /\ history = [on |-> FALSE, log |-> << >>]
    /\ subscriptions \in StoresOf(CycleRows, MaxCycleSubs)
    /\ users = [o \in {subscriptions[i].chat_id : i \in 1..Len(subscriptions)} |-> NewUser]
    /\ notifications \in {<< >>} \cup
           {<<[chat_id |-> r.chat_id, asset |-> r.asset, alert_type |-> r.alert_type,
               price |-> r.threshold, threshold |-> r.threshold, sent_at |-> -600]>> :
            r \in {subscriptions[i] : i \in 1..Len(subscriptions)} \cap EarlierSent}
    /\ lastOp = NoOp

Start == ncycles < MaxCycles /\ CycleStart

Respond == CycleRespond(CyclePrices)

ClockCycle ==
    /\ cycle.pc = "idle"
    /\ \E d \in CycleDeltas : Tick(d, MaxCycleTicks)

Next == Start \/ Respond \/ CycleFail \/ CycleEval \/ CycleFinish \/ ClockCycle

Spec == Init /\ [][Next]_vars

\* The passes of the running (or just aborted) cycle that had a price.
Priced == {i \in 1..Len(evalLog) : evalLog[i].price # None}

\* C1: in the evaluation cycle, a price_above row with a known price is
\* triggered exactly when price >= threshold, a price_below row exactly when
\* price <= threshold, and a row that is not triggered causes no throttle
\* lookup, no dispatch and no record.
C1_TriggerExactlyAtOrBeyondThreshold ==
    \A i \in Priced :
        LET e == evalLog[i] IN
        /\ e.sub.alert_type = "price_above"
               => (e.triggered <=> e.price >= e.sub.threshold)
        /\ e.sub.alert_type = "price_below"
               => (e.triggered <=> e.price <= e.sub.threshold)
        /\ ~e.triggered => e.lookups = 0 /\ ~e.sent /\ ~e.recorded

\* A cycle that triggered and dispatched a row at a price equal to its
\* threshold and passed over another row, with a price, that did not match.
C1_Witness ==
    \E i, j \in Priced :
        /\ evalLog[i].triggered
        /\ evalLog[i].price = evalLog[i].sub.threshold
        /\ evalLog[i].sent
        /\ ~evalLog[j].triggered

\* C5: every record written at the current time has a message the chat
\* transport accepted for the same owner, asset, direction and price at that
\* time, a pass writes a record only if its message was sent, and a dispatch
\* that fails (blocked recipient or another send error) writes no record.
C5_RecordOnlyAfterSuccessfulSend ==
    /\ \A i \in 1..Len(notifications) :
        LET n == notifications[i] IN
        n.sent_at = now =>
            \E m \in outbox :
                /\ m.chat_id = n.chat_id /\ m.asset = n.asset
                /\ m.alert_type = n.alert_type /\ m.price = n.price
                /\ m.at = n.sent_at
    /\ \A i \in 1..Len(evalLog) :
        /\ evalLog[i].recorded => evalLog[i].sent
        /\ evalLog[i].outcome \in {"blocked", "error"} => ~evalLog[i].recorded

\* A cycle in which one dispatch was refused by a blocked recipient and
\* another was delivered and recorded.
C5_Witness ==
    \E i, j \in 1..Len(evalLog) :
        /\ evalLog[i].outcome = "blocked"
        /\ evalLog[j].outcome = "ok"
        /\ evalLog[j].recorded
        /\ notifications # << >>
        /\ notifications[Len(notifications)].sent_at = now

\* C12: when the price mapping has some but not all assets of the loaded
\* rows, the loop passes over every row in order: a row whose asset has a
\* price is evaluated at that price, and a row whose asset has none is
\* skipped with no throttle lookup, no message, no record and no count.
C12_PartialPricesEvaluatedAndSkipped ==
    cycle.pc = "eval" =>
        /\ Len(evalLog) = cycle.idx - 1
        /\ \A i \in 1..Len(evalLog) :
            LET e == evalLog[i]
                s == cycle.subs[i]
            IN /\ e.sub = s
               /\ s.asset \notin DOMAIN cycle.prices =>
                      /\ e.outcome = "skip"
                      /\ e.lookups = 0 /\ ~e.sent /\ ~e.recorded /\ ~e.counted
               /\ s.asset \in DOMAIN cycle.prices =>
                      /\ e.outcome # "skip"
                      /\ e.price = cycle.prices[s.asset]

\* The loop ended over two rows: one skipped for want of a price, the other
\* triggered, sent and recorded.
C12_Witness ==
    /\ cycle.pc = "eval"
    /\ cycle.idx > Len(cycle.subs)
    /\ \E i, j \in 1..Len(evalLog) :
        /\ evalLog[i].outcome = "skip"
        /\ evalLog[j].outcome = "ok"
        /\ evalLog[j].recorded

\* C13: while a row with a known price is still to be evaluated, no pass of
\* the loop ends the cycle, whatever exception the pass meets.
C13_FailureDoesNotAbortTheRest ==
    [][(/\ cycle.pc = "eval"
        /\ \E j \in (cycle.idx + 1)..Len(cycle.subs) :
               cycle.subs[j].asset \in DOMAIN cycle.prices)
       => cycle'.pc = "eval"]_vars


\* The price alone would trigger the row, read as a price_above row.
PriceReached(e) == e.price # None /\ e.price >= e.sub.threshold

\* C28: a percent_change row never triggers, whatever the price: its pass
\* makes no throttle lookup, sends nothing and writes no record, and neither
\* the messages nor the notification log carry the direction.
C28_PercentChangeNeverTriggers ==
    /\ \A k \in 1..Len(evalLog) :
        evalLog[k].sub.alert_type = "percent_change" =>
            /\ ~evalLog[k].triggered
            /\ evalLog[k].lookups = 0
            /\ ~evalLog[k].sent
            /\ ~evalLog[k].counted
            /\ ~evalLog[k].recorded
    /\ \A m \in outbox : m.alert_type # "percent_change"
    /\ \A i \in 1..Len(notifications) : notifications[i].alert_type # "percent_change"

\* C28 witness: a percent_change row evaluated at a price above its threshold.
C28_Witness ==
    \E k \in 1..Len(evalLog) :
        /\ evalLog[k].sub.alert_type = "percent_change"
        /\ PriceReached(evalLog[k])
        /\ evalLog[k].outcome = "nomatch"

(***************************************************************************)
(* SpecE2E: the polling cycle over one subscription, with the history of   *)
(* the ended cycles kept.                                                  *)
(***************************************************************************)
\* Number of cycles started in a behaviour of SpecE2E.
MaxE2ECycles == 3
\* Number of clock advances in a behaviour of SpecE2E.
MaxE2ETicks == 2

E2EPrices == {49000, 50200, 50300}
\* The polling interval of the job queue and ten minutes.
E2EDeltas == {300, 600}

E2ESubscription ==
    [chat_id |-> 42, asset |-> "bitcoin", threshold |-> 50000,
     alert_type |-> "price_above", is_active |-> TRUE]

InitE2E ==
    /\ InitJobs
    /\ InitLock
    /\ InitEnv
    /\ history = [on |-> TRUE, log |-> << >>]
    /\ subscriptions = <<E2ESubscription>>
    /\ users = [o \in {42} |-> NewUser]
    /\ notifications = << >>
    /\ lastOp = NoOp

StartE2E == ncycles < MaxE2ECycles /\ CycleStart

RespondE2E == CycleRespond(E2EPrices)

ClockE2E ==
    /\ cycle.pc = "idle"
    /\ \E d \in E2EDeltas : Tick(d, MaxE2ETicks)

NextE2E ==
    StartE2E \/ RespondE2E \/ CycleFail \/ CycleEval \/ CycleFinish \/ ClockE2E

SpecE2E == InitE2E /\ [][NextE2E]_vars

\* The ended cycle c saw the price p for bitcoin.
SawPrice(c, p) ==
    /\ "bitcoin" \in DOMAIN c.prices
    /\ c.prices["bitcoin"] = p

\* The first three cycles of the history are the scenario: prices 49000,
\* then 50200 with no failure of the throttle lookup or of the dispatch,
\* then 50300 ten minutes after the second cycle.
Scenario ==
    /\ Len(history.log) >= 3
    /\ SawPrice(history.log[1], 49000)
    /\ SawPrice(history.log[2], 50200)
    /\ \A i \in 1..Len(history.log[2].evals) :
          history.log[2].evals[i].outcome
              \notin {"lookupfail", "blocked", "error", "logfail"}
    /\ SawPrice(history.log[3], 50300)
    /\ history.log[3].at = history.log[2].at + 600

\* The messages the ended cycle c delivered.
SentIn(c) == {i \in 1..Len(c.evals) : c.evals[i].sent}

\* C4: for the subscription (42, bitcoin, 50000, price_above), a cycle with
\* price 49000 sends nothing and leaves no record; the next cycle with price
\* 50200 sends exactly one message and leaves exactly one record, with price
\* 50200; a third cycle ten minutes later with price 50300 sends no message
\* and leaves the records as they were.
C4_ThreeCycles ==
    Scenario =>
        /\ SentIn(history.log[1]) = {}
        /\ history.log[1].records = << >>
        /\ Cardinality(SentIn(history.log[2])) = 1
        /\ Len(history.log[2].records) = 1
        /\ history.log[2].records[1].chat_id = 42
        /\ history.log[2].records[1].asset = "bitcoin"
        /\ history.log[2].records[1].alert_type = "price_above"
        /\ history.log[2].records[1].price = 50200
        /\ SentIn(history.log[3]) = {}
        /\ history.log[3].records = history.log[2].records

\* The three cycles of the scenario ended, the third one after the throttle
\* lookup denied its trigger.
C4_Witness ==
    /\ Scenario
    /\ Len(history.log[3].evals) = 1
    /\ history.log[3].evals[1].outcome = "denied"

\* C11: a cycle whose fetch returned the empty mapping evaluates no row,
\* makes no throttle lookup and no dispatch and leaves the notifications
\* table as the cycle before left it; the cycle ends and the next one starts
\* from the load of the subscriptions.
C11_EmptyFetchAbortsCycle ==
    \A k \in 1..Len(history.log) :
        DOMAIN history.log[k].prices = {} =>
            /\ history.log[k].evals = << >>
            /\ history.log[k].records =
                   IF k = 1 THEN << >> ELSE history.log[k - 1].records

\* A cycle that got no price ended, and the cycle started after it loaded
\* the subscription, evaluated it and sent its alert.
C11_Witness ==
    /\ Len(history.log) >= 2
    /\ DOMAIN history.log[1].prices = {}
    /\ Len(history.log[2].evals) = 1
    /\ history.log[2].evals[1].outcome = "ok"

(***************************************************************************)
(* SpecRetry: the polling cycle over two subscriptions of one owner, with  *)
(* dispatches that fail, and the history of the ended cycles kept.         *)
(***************************************************************************)
\* Number of cycles started in a behaviour of SpecRetry.
MaxRetryCycles == 2
\* Number of clock advances in a behaviour of SpecRetry.
MaxRetryTicks == 1

RetryPrices == {50000, 52000}
\* The polling interval of the job queue.
RetryDeltas == {300}

RetrySubscriptions ==
    <<[chat_id |-> 42, asset |-> "bitcoin", threshold |-> 50000,
       alert_type |-> "price_above", is_active |-> TRUE],
      [chat_id |-> 42, asset |-> "bitcoin", threshold |-> 50000,
       alert_type |-> "price_below", is_active |-> TRUE]>>

\* The table starts empty or with the record of an alert of the first row
\* sent ten minutes before the behaviour starts.
InitRetry ==
    /\ InitJobs
    /\ InitLock
    /\ InitEnv
    /\ history = [on |-> TRUE, log |-> << >>]
    /\ subscriptions = RetrySubscriptions
    /\ users = [o \in {42} |-> NewUser]
    /\ notifications \in
           {<< >>,
            <<[chat_id |-> 42, asset |-> "bitcoin", alert_type |-> "price_above",
               price |-> 50000, threshold |-> 50000, sent_at |-> -600]>>}
    /\ lastOp = NoOp

StartRetry == ncycles < MaxRetryCycles /\ CycleStart

RespondRetry == CycleRespond(RetryPrices)

ClockRetry ==
    /\ cycle.pc = "idle"
    /\ \E d \in RetryDeltas : Tick(d, MaxRetryTicks)

NextRetry ==
    StartRetry \/ RespondRetry \/ CycleFail \/ CycleEval \/ CycleFinish \/ ClockRetry

SpecRetry == InitRetry /\ [][NextRetry]_vars

\* The ended cycles that have a successor in the history.
Followed == 1..(Len(history.log) - 1)

\* The passes of the ended cycle k.
Passes(k) == 1..Len(history.log[k].evals)

\* Pass j of cycle k + 1 is over the row of pass i of cycle k.
SameRowNext(k, i, j) ==
    history.log[k + 1].evals[j].sub = history.log[k].evals[i].sub

\* The table cycle k left holds a record of the (owner, asset, direction) of
\* pass e that is, at time t, inside the window and within the tolerance of
\* the price of e.
RecordDenies(k, e, t) ==
    \E n \in 1..Len(history.log[k].records) :
        LET rec == history.log[k].records[n] IN
        /\ rec.chat_id = e.sub.chat_id
        /\ rec.asset = e.sub.asset
        /\ rec.alert_type = e.sub.alert_type
        /\ t - rec.sent_at < 14400
        /\ 50 * Abs(rec.price - e.price) < e.sub.threshold

\* Every cycle passes over a row at most once, and a pass whose dispatch
\* failed wrote no record; no cycle changes the subscriptions.
OnePassNoRecordOnFailure ==
    /\ subscriptions = RetrySubscriptions
    /\ \A k \in 1..Len(history.log) :
        /\ \A i, j \in Passes(k) :
               history.log[k].evals[i].sub = history.log[k].evals[j].sub => i = j
        /\ \A i \in Passes(k) :
               history.log[k].evals[i].outcome \in {"blocked", "error"}
                   => ~history.log[k].evals[i].recorded

\* C16 as stated: at most one dispatch per triggered row per cycle; a failed
\* dispatch writes no record and changes no subscription; and when the row is
\* triggered again in the next cycle (the throttle lookup not failing), the
\* throttle approves and the dispatch is attempted again.
C16_RetryApprovedNextCycle ==
    /\ OnePassNoRecordOnFailure
    /\ \A k \in Followed : \A i \in Passes(k), j \in Passes(k + 1) :
        (/\ history.log[k].evals[i].outcome \in {"blocked", "error"}
         /\ SameRowNext(k, i, j)
         /\ history.log[k + 1].evals[j].triggered
         /\ history.log[k + 1].evals[j].outcome # "lookupfail")
        => history.log[k + 1].evals[j].outcome \in {"ok", "blocked", "error", "logfail"}

\* C16 amended: as above, but in the next cycle the dispatch is attempted
\* again unless the table the failed cycle left holds a record of the same
\* (owner, asset, direction) inside the 4-hour window and within the
\* tolerance of the new price.
C16_RetryUnlessRecordDenies ==
    /\ OnePassNoRecordOnFailure
    /\ \A k \in Followed : \A i \in Passes(k), j \in Passes(k + 1) :
        (/\ history.log[k].evals[i].outcome \in {"blocked", "error"}
         /\ SameRowNext(k, i, j)
         /\ history.log[k + 1].evals[j].triggered
         /\ history.log[k + 1].evals[j].outcome # "lookupfail")
        => \/ history.log[k + 1].evals[j].outcome \in {"ok", "blocked", "error", "logfail"}
           \/ RecordDenies(k, history.log[k + 1].evals[j], history.log[k + 1].at)

\* A dispatch failed with a send error in one cycle and the alert of the same
\* row was delivered in the next cycle.
C16_Witness ==
    \E k \in Followed : \E i \in Passes(k), j \in Passes(k + 1) :
        /\ history.log[k].evals[i].outcome = "error"
        /\ SameRowNext(k, i, j)
        /\ history.log[k + 1].evals[j].outcome = "ok"

\* C17: when the message was sent and log_notification failed, the pass is
\* not counted as sent and writes no record, the cycle goes on to the next
\* row, and the next cycle denies the same trigger only on a record the
\* table already holds, so the alert may be sent a second time.
C17_RecordWriteFailureNotConfirmed ==
    /\ \A k \in 1..Len(history.log) : \A i \in Passes(k) :
        history.log[k].evals[i].outcome = "logfail" =>
            /\ history.log[k].evals[i].sent
            /\ ~history.log[k].evals[i].recorded
            /\ ~history.log[k].evals[i].counted
            /\ i < Len(subscriptions) => Len(history.log[k].evals) > i
    /\ \A k \in Followed : \A i \in Passes(k), j \in Passes(k + 1) :
        (/\ history.log[k].evals[i].outcome = "logfail"
         /\ SameRowNext(k, i, j)
         /\ history.log[k + 1].evals[j].outcome = "denied")
        => RecordDenies(k, history.log[k + 1].evals[j], history.log[k + 1].at)

\* The record of a delivered alert could not be written, the cycle went on
\* to the second row, and the next cycle delivered the alert of the first
\* row a second time at the same price.
C17_Witness ==
    \E k \in Followed : \E j \in Passes(k + 1) :
        /\ Len(history.log[k].evals) = 2
        /\ history.log[k].evals[1].outcome = "logfail"
        /\ SameRowNext(k, 1, j)
        /\ history.log[k + 1].evals[j].outcome = "ok"
        /\ history.log[k + 1].evals[j].price = history.log[k].evals[1].price

\* C18: no cycle creates, deletes, deactivates or changes a subscription; a
\* cycle after one in which the dispatch to an owner was refused because the
\* owner blocked the bot passes over every row of that owner again (given
\* prices and no exception that ends the cycle).
C18_CycleLeavesSubscriptions ==
    /\ subscriptions = RetrySubscriptions
    /\ \A k \in Followed : \A i \in Passes(k) :
        (/\ history.log[k].evals[i].outcome = "blocked"
         /\ DOMAIN history.log[k + 1].prices # {}
         /\ \A j \in Passes(k + 1) : history.log[k + 1].evals[j].outcome # "lookupfail")
        => \A n \in 1..Len(subscriptions) :
              (/\ subscriptions[n].chat_id = history.log[k].evals[i].sub.chat_id
               /\ subscriptions[n].asset \in DOMAIN history.log[k + 1].prices)
              => \E j \in Passes(k + 1) :
                     history.log[k + 1].evals[j].sub = subscriptions[n]

\* The owner blocked the bot in one cycle and the next cycle evaluated both
\* rows of the owner and attempted a dispatch again.
C18_Witness ==
    \E k \in Followed : \E i \in Passes(k), j \in Passes(k + 1) :
        /\ history.log[k].evals[i].outcome = "blocked"
        /\ Len(history.log[k + 1].evals) = 2
        /\ SameRowNext(k, i, j)
        /\ history.log[k + 1].evals[j].outcome \in {"ok", "blocked"}


\* C25: in a cycle with a non-empty price mapping every subscription active
\* when the cycle loaded the table is visited exactly once, in the order
\* loaded: none twice, none left out.
C25_EachSubscriptionVisitedOnce ==
    \A k \in 1..Len(history.log) :
        history.log[k].prices # EmptyMap =>
            /\ Len(history.log[k].evals) = Len(get_all_active_subscriptions(subscriptions))
            /\ \A i \in 1..Len(history.log[k].evals) :
                   history.log[k].evals[i].sub = get_all_active_subscriptions(subscriptions)[i]

(***************************************************************************)
(* SpecInactive: the subscribe command and the polling cycle over a        *)
(* database file that holds a row with is_active = 0.  No statement of the *)
(* program writes 0 to the column; the row is in the file the program is   *)
(* started on.                                                             *)
(***************************************************************************)
\* Number of cycles started in a behaviour of SpecInactive.
MaxInactiveCycles == 1

InactivePrices == {50000}

InactiveRow ==
    [chat_id |-> 7, asset |-> "bitcoin", threshold |-> 40000,
     alert_type |-> "price_above", is_active |-> FALSE]

InitInactive ==
    /\ InitJobs
    /\ InitLock
    /\ InitEnv
    /\ history = [on |-> FALSE, log |-> << >>]
    /\ subscriptions = <<InactiveRow>>
    /\ users = [o \in {7} |-> NewUser]
    /\ notifications = << >>
    /\ lastOp = NoOp

StartInactive == ncycles < MaxInactiveCycles /\ CycleStart

RespondInactive == CycleRespond(InactivePrices)

NextInactive ==
    \/ AlertCommand
    \/ StartInactive
    \/ RespondInactive
    \/ CycleFail
    \/ CycleEval
    \/ CycleFinish

SpecInactive == InitInactive /\ [][NextInactive]_vars

MaxCleanupTicks == 2

\* One day, two days and 29 days.
CleanupDeltas == {86400, 172800, 2505600}

InitCleanup ==
    /\ InitJobs
    /\ InitLock
    /\ InitEnv
    /\ history = [on |-> FALSE, log |-> << >>]
    /\ users = EmptyMap
    /\ subscriptions = << >>
    /\ notifications = << >>
    /\ lastOp = NoOp

\* check_prices: the periodic cleanup.
CleanupPass ==
    /\ CleanupDue(now, last_cleanup)
    /\ notifications' = cleanup_old_notifications(notifications, now)
    /\ last_cleanup' = now
    /\ lastOp' = [op |-> "cleanup", before |-> notifications]
    /\ UNCHANGED <<clockVars, cacheVars, lockVars, envVars, users, subscriptions>>
    /\ UNCHANGED <<cycle, evalLog, outbox, ncycles, history>>

ClockCleanup == \E d \in CleanupDeltas : Tick(d, MaxCleanupTicks)

NextCleanup == LogRecord \/ CleanupPass \/ ClockCleanup

SpecCleanup == InitCleanup /\ [][NextCleanup]_vars

\* The number of rows of table seq equal to x.
CountOf(seq, x) == Cardinality({i \in 1..Len(seq) : seq[i] = x})

\* C20: after a cleanup pass no record older than 30 days remains, the pass
\* adds no record, and every record younger than 30 days is still in the
\* table, unchanged and as many times as before.
C20_CleanupKeepsYoungDropsOld ==
    lastOp.op = "cleanup" =>
        /\ \A i \in 1..Len(notifications) :
               /\ now - notifications[i].sent_at <= 2592000
               /\ CountOf(lastOp.before, notifications[i]) > 0
        /\ \A i \in 1..Len(lastOp.before) :
               now - lastOp.before[i].sent_at < 2592000 =>
                   CountOf(notifications, lastOp.before[i])
                       = CountOf(lastOp.before, lastOp.before[i])

\* A cleanup pass deleted a record 31 days old and kept one 29 days old.
C20_Witness ==
    /\ lastOp.op = "cleanup"
    /\ \E i \in 1..Len(lastOp.before) : now - lastOp.before[i].sent_at = 2678400
    /\ Len(notifications) = 1
    /\ now - notifications[1].sent_at = 2505600

(***************************************************************************)
(* SpecDup: cycles an hour apart over two rows of one (owner, asset,       *)
(* direction) with different thresholds, the table as the duplicate of C3  *)
(* leaves it.                                                              *)
(***************************************************************************)
\* Number of cycles started in a behaviour of SpecDup.
MaxDupCycles == 2
\* Number of clock advances in a behaviour of SpecDup.
MaxDupTicks == 2

DupPrices == {52000}
\* One hour, and one hour and a second.
DupDeltas == {3600, 3601}

DupSubscriptions ==
    <<[chat_id |-> 42, asset |-> "bitcoin", threshold |-> 40000,
       alert_type |-> "price_above", is_active |-> TRUE],
      [chat_id |-> 42, asset |-> "bitcoin", threshold |-> 50000,
       alert_type |-> "price_above", is_active |-> TRUE]>>

\* A record of another asset, 50 minutes short of 30 days old at the start.
OldRecord ==
    [chat_id |-> 42, asset |-> "ethereum", alert_type |-> "price_below",
     price |-> 3000, threshold |-> 3000, sent_at |-> 3000 - RETENTION]

InitDup ==
    /\ InitJobs
    /\ InitLock
    /\ InitEnv
    /\ history = [on |-> TRUE, log |-> << >>]
    /\ subscriptions = DupSubscriptions
    /\ users = [o \in {42} |-> NewUser]
    /\ notifications = <<OldRecord>>
    /\ lastOp = NoOp

StartDup == ncycles < MaxDupCycles /\ CycleStart

RespondDup == CycleRespond(DupPrices)

ClockDup ==
    /\ cycle.pc = "idle"
    /\ \E d \in DupDeltas : Tick(d, MaxDupTicks)

NextDup ==
    StartDup \/ RespondDup \/ CycleFail \/ CycleEval \/ CycleFinish \/ ClockDup

SpecDup == InitDup /\ [][NextDup]_vars

\* C21: the purge runs at most once per hour: a step deletes records or moves
\* the last-cleanup timestamp only when more than one hour has passed since
\* that timestamp, and it then sets the timestamp to the current time, so two
\* purges are more than one hour apart.
C21_PurgeAtMostHourly ==
    [][(last_cleanup' # last_cleanup \/ Len(notifications') < Len(notifications))
       => /\ now - last_cleanup > CLEANUP_INTERVAL
          /\ last_cleanup' = now]_vars

\* C21 witness: the cycle at 3601 purged the old record, and the cycle exactly
\* one hour later ended without a purge.
C21_Witness ==
    /\ Len(history.log) = 2
    /\ history.log[1].at = 3601
    /\ history.log[2].at = 7201
    /\ last_cleanup = 3601
    /\ \A i \in 1..Len(notifications) : notifications[i] # OldRecord

\* The passes of the cycle in progress that sent a message for the tuple of row r.
SentFor(r) ==
    {k \in 1..Len(evalLog) : evalLog[k].sent /\ TupleOf(evalLog[k].sub) = TupleOf(r)}

\* C30: in a cycle whose record writes succeed, the owner is sent at most one
\* notification per (asset, direction), although several active rows of the
\* tuple with different positive thresholds trigger: the record of the first
\* makes the throttle deny the others.
C30_OneNotificationPerTuplePerCycle ==
    (\A k \in 1..Len(evalLog) : evalLog[k].outcome # "logfail") =>
        /\ \A k \in 1..Len(evalLog) : Cardinality(SentFor(evalLog[k].sub)) <= 1
        /\ \A j, k \in 1..Len(evalLog) :
               (/\ j < k
                /\ evalLog[j].recorded
                /\ TupleOf(evalLog[j].sub) = TupleOf(evalLog[k].sub)
                /\ evalLog[k].triggered)
               => evalLog[k].outcome \in {"denied", "lookupfail"}

\* C30 witness: both rows triggered at 52000; the first was sent and
\* recorded, the second denied by the throttle.
C30_Witness ==
    /\ Len(evalLog) = 2
    /\ evalLog[1].sub.threshold # evalLog[2].sub.threshold
    /\ evalLog[1].outcome = "ok"
    /\ evalLog[1].recorded
    /\ evalLog[2].triggered
    /\ evalLog[2].outcome = "denied"

(***************************************************************************)
(* SpecAdmin: one cycle over enough rows of different owners for the       *)
(* summary to the administrator to be due.                                 *)
(***************************************************************************)
\* Number of rows of the subscriptions table in SpecAdmin.
MaxAdminRows == 11

AdminPrices == {50000}
\* One hour and a second.
AdminDeltas == {3601}

AdminSubscriptions ==
    [i \in 1..MaxAdminRows |->
        [chat_id |-> 100 + i, asset |-> "bitcoin", threshold |-> 50000,
         alert_type |-> "price_above", is_active |-> TRUE]]

\* The send of a pass goes through, fails, or the throttle lookup raises.
AdminOutcomes == {"ok", "error", "lookupfail"}

\* ADMIN_CHAT_ID is what the environment holds: a chat or nothing.
InitAdmin ==
    /\ InitJobs
    /\ InitLock
    /\ admin_chat_id \in {None, ADMIN_CHAT_ID}
    /\ history = [on |-> FALSE, log |-> << >>]
    /\ subscriptions = AdminSubscriptions
    /\ users = [o \in {100 + i : i \in 1..MaxAdminRows} |-> NewUser]
    /\ notifications = << >>
    /\ lastOp = NoOp

StartAdmin == ncycles = 0 /\ CycleStart

RespondAdmin == CycleRespond(AdminPrices)

EvalAdmin == CycleEval /\ evalLog'[Len(evalLog')].outcome \in AdminOutcomes

ClockAdmin ==
    /\ ncycles = 0
    /\ nticks = 0
    /\ \E d \in AdminDeltas : Tick(d, nticks + 1)

NextAdmin ==
    \/ StartAdmin \/ RespondAdmin \/ CycleFail \/ EvalAdmin
    \/ CycleFinish \/ CycleSummary \/ ClockAdmin

SpecAdmin == InitAdmin /\ [][NextAdmin]_vars

\* The step ends the loop of check_prices after its last row.
LoopEnds == cycle.pc = "eval" /\ cycle.idx > Len(cycle.subs) /\ cycle'.pc # "eval"

\* The cleanup was due in the step and raised.
CleanupRaised == now - last_cleanup > CLEANUP_INTERVAL /\ last_cleanup' = last_cleanup

\* The step of the summary: a message to the administrator or, when the send
\* fails, nothing; the tables and the cleanup timestamp stay as they are.
SummaryStepQuiet ==
    cycle.pc = "summary" =>
        /\ cycle'.pc = "idle"
        /\ outbox' \in {outbox, outbox \cup {Summary(admin_chat_id, cycle.alerts_sent, now)}}
        /\ notifications' = notifications
        /\ last_cleanup' = last_cleanup
        /\ users' = users
        /\ subscriptions' = subscriptions

Tables == <<users, subscriptions, notifications>>

\* The write functions each thread calls.
WriteOps(th) ==
    IF th = "command"
    THEN {[name |-> "add", chat_id |-> o, asset |-> a, threshold |-> x, alert_type |-> ty] :
              o \in Owners, a \in StoreAssets, x \in Thresholds, ty \in {"price_above"}}
         \cup {[name |-> "remove", chat_id |-> o, asset |-> a, alert_type |-> ty] :
              o \in Owners, a \in StoreAssets, ty \in {"price_above"}}
         \cup {[name |-> "create_user", chat_id |-> o] : o \in {7}}
         \cup {[name |-> "upgrade", chat_id |-> o] : o \in {42}}
    ELSE {[name |-> "log", chat_id |-> o, asset |-> "bitcoin", alert_type |-> "price_above",
           price |-> 50000, threshold |-> 50000] : o \in {42}}
         \cup {[name |-> "cleanup"]}

\* threading.Lock.acquire that never blocks.
LockFreeAlways(l) == TRUE

\* threading.Lock.acquire: blocks until the lock is free.
LockFree(l) == l = "free"

\* add_subscription with its limit check moved into its with block.
NestedLockRequestsChecked(op) ==
    IF op.name = "add" THEN {"check_subscription_limits"} ELSE {}

\* The functions taking the lock that the body of the with block of a write
\* function calls: none.
NestedLockRequests(op) == {}

\* A record 30 days and a second old.
ExpiredRecord ==
    [chat_id |-> 7, asset |-> "bitcoin", alert_type |-> "price_below",
     price |-> 40000, threshold |-> 40000, sent_at |-> 0 - RETENTION - 1]

\* A premium user whose subscription_expires is not after the time of Init.
ExpiredPremium == [type |-> "premium", expires |-> 0, alerts |-> 0]

\* No write function left to run after the one in hand.
NoThen == [name |-> "none"]

InitLockSpec ==
    /\ InitJobs
    /\ InitLock
    /\ InitEnv
    /\ history = [on |-> FALSE, log |-> << >>]
    /\ users \in {[o \in {42} |-> u] : u \in {NewUser, ExpiredPremium}}
    /\ subscriptions = << >>
    /\ notifications \in {<< >>, <<ExpiredRecord>>}
    /\ lastOp = NoOp

\* Thread th calls write function op and reaches its first `with _lock`.  The
\* limit check of add_subscription runs before the with block of the insert,
\* outside the lock, and has write transactions of its own: a missing user is
\* created by get_user_subscription, an expired premium is downgraded and
\* the call ends there; a refused add requests no lock.
LockBegin(th, op) ==
    /\ txn[th].pc = "idle"
    /\ op.name = "add" /\ op.chat_id \in DOMAIN users =>
          \/ check_subscription_limits(users, subscriptions, op.chat_id, now).allowed
          \/ check_subscription_limits(users, subscriptions, op.chat_id, now).reason
                 = "premium_expired"
    /\ txn' = [txn EXCEPT ![th] =
                 IF op.name # "add"
                 THEN [pc |-> "wait", op |-> op, then |-> NoThen]
                 ELSE IF op.chat_id \notin DOMAIN users
                 THEN [pc |-> "wait", op |-> [name |-> "create_user", chat_id |-> op.chat_id],
                       then |-> op]
                 ELSE IF ~check_subscription_limits(users, subscriptions, op.chat_id,
                                                    now).allowed
                 THEN [pc |-> "wait", op |-> [name |-> "downgrade", chat_id |-> op.chat_id],
                       then |-> NoThen]
                 ELSE [pc |-> "wait", op |-> op, then |-> NoThen]]
    /\ UNCHANGED <<clockVars, cacheVars, envVars, cycleVars>>
    /\ UNCHANGED <<users, subscriptions, notifications, lastOp, lock>>

\* A thread calls one of its write functions.
LockCall(th) ==
    \E op \in WriteOps(th) :
        /\ op.name = "add" => Len(subscriptions) < MaxSubs
        /\ op.name = "log" => Len(notifications) < MaxRecords
        /\ LockBegin(th, op)

\* _lock.__enter__ and get_db(): the thread holds the lock and its connection
\* sees the tables as they are.
LockAcquire(th) ==
    /\ txn[th].pc = "wait"
    /\ LockFree(lock)
    /\ lock' = th
    /\ txn' = [txn EXCEPT ![th] = [pc |-> "in", op |-> txn[th].op, then |-> txn[th].then,
                                   read |-> Tables]]
    /\ UNCHANGED <<clockVars, cacheVars, envVars, cycleVars>>
    /\ UNCHANGED <<users, subscriptions, notifications, lastOp>>

\* The statements of the transaction and conn.commit(), then the end of the
\* with block: the connection is closed and the lock released.  A body that
\* calls a function taking the lock waits there for the lock its own thread
\* holds.  After the creation of a missing user, check_subscription_limits
\* goes on to count the subscriptions and add_subscription to its insert.
LockCommit(th) ==
    /\ txn[th].pc = "in"
    /\ \A f \in NestedLockRequests(txn[th].op) : LockFree(lock)
    /\ LET op == txn[th].op IN
       /\ subscriptions' =
            IF op.name = "add"
            THEN InsertOrUpdate(subscriptions, op.chat_id, op.asset, op.threshold,
                                op.alert_type).subscriptions
            ELSE IF op.name = "remove"
            THEN remove_subscription(subscriptions, op.chat_id, op.asset,
                                     op.alert_type).subscriptions
            ELSE subscriptions
       /\ notifications' =
            IF op.name = "log"
            THEN log_notification(notifications, op.chat_id, op.asset, op.alert_type,
                                  op.price, op.threshold, now)
            ELSE IF op.name = "cleanup"
            THEN cleanup_old_notifications(notifications, now)
            ELSE notifications
       /\ users' =
            IF op.name = "log" THEN CountAlert(users, op.chat_id)
            ELSE IF op.name = "create_user" THEN create_or_update_user(users, op.chat_id)
            ELSE IF op.name = "upgrade"
            THEN upgrade_subscription(users, op.chat_id, TRIAL_SECONDS, now)
            ELSE IF op.name = "downgrade"
            THEN [users EXCEPT ![op.chat_id].type = "free"]
            ELSE users
    /\ lock' = "free"
    /\ txn' = [txn EXCEPT ![th] =
                 IF /\ txn[th].then.name = "add"
                    /\ Len(list_subscriptions(subscriptions, txn[th].then.chat_id)) < FREE_LIMIT
                 THEN [pc |-> "wait", op |-> txn[th].then, then |-> NoThen]
                 ELSE [pc |-> "idle"]]
    /\ UNCHANGED <<clockVars, cacheVars, envVars, cycleVars, lastOp>>

\* A statement raises sqlite3.Error: get_db rolls back, the with block
\* releases the lock on the way out and the error leaves the function called.
LockRollback(th) ==
    /\ txn[th].pc = "in"
    /\ \A f \in NestedLockRequests(txn[th].op) : LockFree(lock)
    /\ lock' = "free"
    /\ txn' = [txn EXCEPT ![th] = [pc |-> "idle"]]
    /\ UNCHANGED <<clockVars, cacheVars, envVars, cycleVars>>
    /\ UNCHANGED <<users, subscriptions, notifications, lastOp>>

NextLock ==
    \E th \in Threads : LockCall(th) \/ LockAcquire(th) \/ LockCommit(th) \/ LockRollback(th)

SpecLock == InitLockSpec /\ [][NextLock]_vars

\* C22: every write transaction runs holding the one lock of the store: a
\* thread inside a transaction is the holder of the lock, so no two write
\* transactions of the cycle and of the command handlers run at the same
\* time; the tables change only in the commit of the holder; and no update
\* is lost: until it ends, a transaction finds the tables as they were when
\* it began.
C22_WriteTransactionsHoldLock ==
    /\ [](\A th \in Threads :
            txn[th].pc = "in" => (lock = th /\ txn[th].read = Tables))
    /\ [][Tables' # Tables =>
            \E th \in Threads :
                /\ lock = th
                /\ txn[th].pc = "in"
                /\ txn'[th].pc # "in"
                /\ lock' = "free"]_vars

\* C22 witness: the cycle is inside log_notification while the command
\* handler waits for the lock with a subscription to add, after an earlier
\* write of each.
C22_Witness ==
    /\ txn["cycle"].pc = "in"
    /\ txn["cycle"].op.name = "log"
    /\ txn["command"].pc = "wait"
    /\ txn["command"].op.name = "add"
    /\ Len(subscriptions) >= 1
    /\ Len(notifications) >= 1

\* The scheduling of the threads: a transaction in its with block goes on to
\* its commit or to its error, and a thread waiting in _lock.__enter__ is not
\* passed over for ever while the lock is released again and again.
SpecLockFair ==
    /\ SpecLock
    /\ \A th \in Threads :
        /\ SF_vars(LockAcquire(th))
        /\ WF_vars(LockCommit(th) \/ LockRollback(th))

Handlers == {"handler1", "handler2"}

\* The calls of the handlers: the free user 42 adds and removes alerts.
LimitOps ==
    {[name |-> "add", chat_id |-> 42, asset |-> a, threshold |-> x, alert_type |-> ty] :
        a \in StoreAssets, x \in Thresholds, ty \in AlertTypes}
    \cup {[name |-> "remove", chat_id |-> 42, asset |-> a, alert_type |-> ty] :
        a \in StoreAssets, ty \in AlertTypes}

InitLimit ==
    /\ InitJobs
    /\ InitEnv
    /\ lock = "free"
    /\ txn = [th \in Handlers |-> [pc |-> "idle"]]
    /\ history = [on |-> FALSE, log |-> << >>]
    /\ users = [o \in {42} |-> NewUser]
    /\ subscriptions = << >>
    /\ notifications = << >>
    /\ lastOp = NoOp

\* A handler calls add_subscription or remove_subscription.
LimitCall(th) == \E op \in LimitOps : LockBegin(th, op)

NextLimit ==
    \E th \in Handlers : LimitCall(th) \/ LockAcquire(th) \/ LockCommit(th) \/ LockRollback(th)

SpecLimit == InitLimit /\ [][NextLimit]_vars

\* C31: whatever the sequence and the interleaving of the add_subscription
\* and remove_subscription calls, a user of the free tier never holds more
\* than FREE_LIMIT active subscriptions.
C31_FreeLimitUnderInterleaving ==
    \A o \in DOMAIN users :
        users[o].type = "free" =>
            Len(list_subscriptions(subscriptions, o)) <= FREE_LIMIT

(***************************************************************************)
(* SpecCache: jobs.py cleanup_caches, the hourly job of bot.py, between    *)
(* the fetches of the command handlers.                                    *)
(***************************************************************************)
\* Number of clock advances in a behaviour of SpecCache.
MaxCacheTicks == 2

CachePrices == {50000}
\* Under the freshness window, the window, and a second over it.
CacheDeltas == {200, 240, 241}

\* cleanup_caches with half the freshness window for twice the window.
cleanup_caches_half(cache_dict, t) ==
    [k \in {a \in DOMAIN cache_dict :
                ~(2 * (t - cache_dict[a].timestamp) > CACHE_DURATION)} |-> cache_dict[k]]

\* cleanup_caches on one cache at clock value t: the keys with
\* now - timestamp > timedelta(seconds=CACHE_DURATION * 2) are deleted.
cleanup_caches(cache_dict, t) ==
    [k \in {a \in DOMAIN cache_dict :
                ~(t - cache_dict[a].timestamp > CACHE_DURATION * 2)} |-> cache_dict[k]]

InitCache ==
    /\ InitJobs
    /\ InitLock
    /\ InitEnv
    /\ history = [on |-> FALSE, log |-> << >>]
    /\ users = EmptyMap
    /\ subscriptions = << >>
    /\ notifications = << >>
    /\ lastOp = NoOp

CacheFetch ==
    /\ ncalls < MaxCalls
    /\ \E assets \in {<<"bitcoin">>, <<"ethereum">>} : FetchBegin("command", assets)
    /\ lastOp' = NoOp
    /\ UNCHANGED <<envVars, lockVars, cycleVars, users, subscriptions, notifications>>

CacheRespond ==
    /\ fetch["command"].state = "waiting"
    /\ \E data \in Answers(fetch["command"].uncached, CachePrices) :
            FetchRespond("command", data)
    /\ lastOp' = NoOp
    /\ UNCHANGED <<envVars, lockVars, cycleVars, users, subscriptions, notifications>>

\* The cache_cleanup job runs.
CacheCleanup ==
    /\ price_cache' = cleanup_caches(price_cache, now)
    /\ lastOp' = [op |-> "cache_cleanup", before |-> price_cache]
    /\ UNCHANGED <<clockVars, envVars, lockVars, cycleVars>>
    /\ UNCHANGED <<fetch, lastFetch, ncalls, users, subscriptions, notifications>>

ClockCache == \E d \in CacheDeltas : Tick(d, MaxCacheTicks)

NextCache == CacheFetch \/ CacheRespond \/ CacheCleanup \/ ClockCache

SpecCache == InitCache /\ [][NextCache]_vars

\* C35: cleanup_caches removes exactly the entries older than twice the
\* freshness window and leaves the others as they are, so for every asset a
\* get at the time of the cleanup answers the same with and without it.
C35_CleanupKeepsFreshEntries ==
    lastOp.op = "cache_cleanup" =>
        /\ \A a \in Assets :
              get_cached_data(price_cache, a, now) = get_cached_data(lastOp.before, a, now)
        /\ DOMAIN price_cache =
              {a \in DOMAIN lastOp.before :
                  now - lastOp.before[a].timestamp <= 2 * CACHE_DURATION}
        /\ \A a \in DOMAIN price_cache : price_cache[a] = lastOp.before[a]

\* C35 witness: a cleanup removed one entry, over twice the window old, and
\* kept another that get still serves.
C35_Witness ==
    /\ lastOp.op = "cache_cleanup"
    /\ DOMAIN price_cache # DOMAIN lastOp.before
    /\ \E a \in DOMAIN price_cache : get_cached_data(price_cache, a, now) # None

(***************************************************************************)
(* SpecFixed: db_fixed.py, the store with one table of (chat_id, asset,    *)
(* threshold) rows.                                                        *)
(***************************************************************************)
FixedAssets == {"bitcoin", "ethereum"}

\* db_fixed init_db: UNIQUE(chat_id, asset)
FixedKey(r) == <<r.chat_id, r.asset>>

\* The rows of subs with the key of (chat_id, asset).
FixedRowsOf(subs, chat_id, asset) ==
    {i \in 1..Len(subs) : FixedKey(subs[i]) = <<chat_id, asset>>}

\* The INSERT under a constraint UNIQUE(chat_id, asset, threshold).
fixed_add_subscription_threshold(subs, chat_id, asset, threshold) ==
    LET new == [chat_id |-> chat_id, asset |-> asset, threshold |-> threshold]
    IN IF \A i \in 1..Len(subs) : subs[i] # new
       THEN [subscriptions |-> Append(subs, new), result |-> TRUE]
       ELSE [subscriptions |-> subs, result |-> TRUE]

\* db_fixed add_subscription(chat_id, asset, threshold): the INSERT, or on
\* IntegrityError the UPDATE of the row of (chat_id, asset); True either way.
fixed_add_subscription(subs, chat_id, asset, threshold) ==
    LET new == [chat_id |-> chat_id, asset |-> asset, threshold |-> threshold]
    IN IF FixedRowsOf(subs, chat_id, asset) = {}
       THEN [subscriptions |-> Append(subs, new), result |-> TRUE]
       ELSE [subscriptions |->
                [i \in 1..Len(subs) |->
                    IF i \in FixedRowsOf(subs, chat_id, asset)
                    THEN [subs[i] EXCEPT !.threshold = threshold]
                    ELSE subs[i]],
             result |-> TRUE]

\* db_fixed remove_subscription(chat_id, asset): the rows left and
\* cursor.rowcount > 0.
fixed_remove_subscription(subs, chat_id, asset) ==
    [subscriptions |-> SelectSeq(subs, LAMBDA r : FixedKey(r) # <<chat_id, asset>>),
     result |-> FixedRowsOf(subs, chat_id, asset) # {}]

\* After db_fixed init_db on a new file: the table is empty.
InitFixed ==
    /\ InitJobs
    /\ InitLock
    /\ InitEnv
    /\ history = [on |-> FALSE, log |-> << >>]
    /\ users = EmptyMap
    /\ subscriptions = << >>
    /\ notifications = << >>
    /\ lastOp = NoOp

FixedAdd ==
    /\ \E o \in Owners, a \in FixedAssets, x \in Thresholds :
        LET r == fixed_add_subscription(subscriptions, o, a, x) IN
        /\ subscriptions' = r.subscriptions
        /\ lastOp' = [op |-> "fixed_add", chat_id |-> o, asset |-> a, threshold |-> x,
                      ok |-> r.result, before |-> subscriptions]
    /\ UNCHANGED <<clockVars, cacheVars, lockVars, envVars, cycleVars, users, notifications>>

FixedRemove ==
    /\ \E o \in Owners, a \in FixedAssets :
        LET r == fixed_remove_subscription(subscriptions, o, a) IN
        /\ subscriptions' = r.subscriptions
        /\ lastOp' = [op |-> "fixed_remove", chat_id |-> o, asset |-> a,
                      ok |-> r.result, before |-> subscriptions]
    /\ UNCHANGED <<clockVars, cacheVars, lockVars, envVars, cycleVars, users, notifications>>

NextFixed == FixedAdd \/ FixedRemove

SpecFixed == InitFixed /\ [][NextFixed]_vars

\* C38: in the store of db_fixed there is at most one row per (chat_id,
\* asset); add_subscription returns True and leaves that row with the
\* threshold of the call; remove_subscription returns True exactly when a
\* row existed and leaves none.
C38_FixedStoreOneRowPerKey ==
    /\ \A i, j \in 1..Len(subscriptions) :
          FixedKey(subscriptions[i]) = FixedKey(subscriptions[j]) => i = j
    /\ lastOp.op = "fixed_add" =>
          /\ lastOp.ok
          /\ \E i \in FixedRowsOf(subscriptions, lastOp.chat_id, lastOp.asset) :
                 subscriptions[i].threshold = lastOp.threshold
    /\ lastOp.op = "fixed_remove" =>
          /\ lastOp.ok <=> FixedRowsOf(lastOp.before, lastOp.chat_id, lastOp.asset) # {}
          /\ FixedRowsOf(subscriptions, lastOp.chat_id, lastOp.asset) = {}

\* C38 witness: an add that found the row of its key with another threshold
\* and replaced it, beside the row of another key.
C38_Witness ==
    /\ lastOp.op = "fixed_add"
    /\ \E i \in FixedRowsOf(lastOp.before, lastOp.chat_id, lastOp.asset) :
           lastOp.before[i].threshold # lastOp.threshold
    /\ Len(subscriptions) >= 2

(***************************************************************************)
(* SpecRemove: the /remove command of the dispatcher thread between the    *)
(* steps of a cycle of the job queue.                                      *)
(***************************************************************************)
\* Number of cycles started in a behaviour of SpecRemove.
MaxRemoveCycles == 1

RemovePrices == {50000}

InitRemove ==
    /\ InitJobs
    /\ InitLock
    /\ InitEnv
    /\ history = [on |-> FALSE, log |-> << >>]
    /\ subscriptions = RetrySubscriptions
    /\ users = [o \in {42} |-> NewUser]
    /\ notifications = << >>
    /\ lastOp = NoOp

StartRemove == ncycles < MaxRemoveCycles /\ CycleStart

RespondRemove == CycleRespond(RemovePrices)

NextRemove ==
    \/ StartRemove \/ RespondRemove \/ CycleFail \/ CycleEval \/ CycleFinish
    \/ RemoveAlertCommand

SpecRemove == InitRemove /\ [][NextRemove]_vars

\* The last command removed the subscription of its tuple.
Removed == lastOp.op = "remove" /\ lastOp.ok

\* The (owner, asset, direction) of the last command.
LastTuple == <<lastOp.chat_id, lastOp.asset, lastOp.alert_type>>

\* The step dispatches a notification for the tuple of the last command.
DispatchesLastTuple ==
    \E m \in outbox' \ outbox : <<m.chat_id, m.asset, m.alert_type>> = LastTuple

\* The working set of the cycle in progress holds a row of the tuple of the
\* last command.
InWorkingSet(c) ==
    c.pc \in {"fetch", "eval"} /\ \E i \in 1..Len(c.subs) : TupleOf(c.subs[i]) = LastTuple

\* C33 as stated: once remove_subscription(owner, asset, direction) has
\* returned true, and until the next command, no notification is dispatched
\* for that (owner, asset, direction), also when a cycle that loaded its
\* subscriptions before the removal is running.
C33_NoDispatchAfterRemoval ==
    [][(lastOp.op = "remove" /\ lastOp.ok) =>
          \A m \in outbox' \ outbox :
              <<m.chat_id, m.asset, m.alert_type>>
                  # <<lastOp.chat_id, lastOp.asset, lastOp.alert_type>>]_vars

\* C33 amended: once remove_subscription has returned true, and until the
\* next command, a cycle that loads its subscriptions does not load the
\* tuple, and a notification for the tuple is dispatched only by a cycle that
\* loaded its subscriptions before the removal.
C33_NoDispatchByLaterCycles ==
    [][Removed =>
          /\ ~InWorkingSet(cycle) => ~InWorkingSet(cycle')
          /\ ~InWorkingSet(cycle) => ~DispatchesLastTuple]_vars

\* C33 witness: a cycle that started after the removal of the price_above
\* row has dispatched for the price_below row and reached the end of its
\* list.
C33_Witness ==
    /\ Removed
    /\ cycle.pc = "eval"
    /\ ~InWorkingSet(cycle)
    /\ cycle.idx > Len(cycle.subs)
    /\ cycle.alerts_sent = 1
    /\ outbox # {}

====
